---- MODULE Spec2Model ----
(***************************************************************************)
(* The MRV backtracking Sudoku solver of sudoku-visualizer: the generator  *)
(* solveSudokuMRV, its cell selector selectMRV, its recursive search dfs   *)
(* and the board helpers they use.  A generator is a record holding the    *)
(* closure variables of solveSudokuMRV and the stack of suspended dfs      *)
(* frames; one action is one call of next() on it.  Boards are objects on  *)
(* a heap, so that the board the caller passes in and the working copy of  *)
(* each run are distinct objects.  Indices are 0-based as in the source.   *)
(***************************************************************************)
EXTENDS Integers, Sequences, FiniteSets, TLC

VARIABLES
  heap,     \* board objects: heap[0] is the board given to solveSudokuMRV,
            \* heap[i] the working board b allocated by run i
  gen,      \* gen[i]: the generator object of run i
  yielded,  \* yielded[i]: what the latest next() of run i returned, if any
  trace,    \* trace[i]: the steps run i has yielded so far, oldest first,
            \* without the empties, usage and scan of a selectCell step
  saved,    \* saved[i]: for each open trial of run i, the board and usage
            \* tables as they were when its tryDigit step was yielded
  puzzle,   \* the contents of the caller's board when the runs were created
  hook,     \* the state of useSolverStateImmer: coreState, genRef, initialRef
  abandoned,\* where the hook stood when reset or initializePuzzle last
            \* replaced its state: "none" before the first of them
  emitted,  \* emitted[i]: the selectCell steps run i has yielded, oldest
            \* first, each as the object the caller received together with
            \* what the caller read from it at that moment
  validation, \* the validation state of useSudokuController
  arg,      \* the board given to the call of validateBoard under examination
  ret,      \* what that call returned or that it threw, once it has ended
  acted,    \* the handler of useSudokuController that ran last, with the
            \* text it was given and what it made of it
  visual,   \* the state of useVisualization and of the components it feeds
  added     \* every line given to addLog since the last clearLogs, oldest
            \* first

vars == <<heap, gen, yielded, trace, saved, puzzle, hook, abandoned, emitted,
          validation, arg, ret, acted, visual, added>>

----------------------------------------------------------------------------
(* Configuration constants.                                                *)

BOARD_SIZE == 9
MAX_DIGIT == 9

Idx == 0 .. (BOARD_SIZE - 1)
Digits == 1 .. MAX_DIGIT
DigitSeq == [d \in 1 .. MAX_DIGIT |-> d]

----------------------------------------------------------------------------
(* Cells are one-character strings: "." or "1".."9".                       *)

DigitChars == <<"1", "2", "3", "4", "5", "6", "7", "8", "9">>

\* ch.charCodeAt(0) for the characters a board cell can hold
charCodeAt0(ch) ==
  IF ch = "." THEN 46
  ELSE 48 + (CHOOSE d \in Digits : DigitChars[d] = ch)

isDigit(ch) == charCodeAt0(ch) >= 49 /\ charCodeAt0(ch) <= 57

toChar(d) == DigitChars[d]

fromChar(ch) == charCodeAt0(ch) - 48

boxIdByColumnInBlock(r, c) == (r \div 3) * 3 + (c % 3)

boxId(r, c) == (r \div 3) * 3 + (c \div 3)

\* the three usage tables, each 9 arrays of 10 flags (index 0 unused)
buildUsage(board) ==
  [rows  |-> [r \in Idx |-> [d \in 0 .. 9 |->
                \E c \in Idx : isDigit(board[r][c]) /\ fromChar(board[r][c]) = d]],
   cols  |-> [c \in Idx |-> [d \in 0 .. 9 |->
                \E r \in Idx : isDigit(board[r][c]) /\ fromChar(board[r][c]) = d]],
   boxes |-> [x \in Idx |-> [d \in 0 .. 9 |->
                \E r \in Idx : \E c \in Idx :
                   /\ boxId(r, c) = x
                   /\ isDigit(board[r][c])
                   /\ fromChar(board[r][c]) = d]]]

canPlaceNoBox(rows, cols, boxes, r, c, d) == ~rows[r][d] /\ ~cols[c][d]

canPlace(rows, cols, boxes, r, c, d) ==
  ~rows[r][d] /\ ~cols[c][d] /\ ~boxes[boxId(r, c)][d]

\* board.map(row => row.slice()): a new board object with the same cells
cloneBoardAlias(h, src, new) == [heap |-> h, ref |-> src]

cloneBoard(h, src, new) ==
  [heap |-> (new :> [r \in Idx |-> [c \in Idx |-> h[src][r][c]]]) @@ h,
   ref  |-> new]

----------------------------------------------------------------------------
(* Sequence helpers for 0-based array indices.                             *)

At(arr, i) == arr[i + 1]

SwappedOverwrite(arr, i, j) == [arr EXCEPT ![i + 1] = arr[j + 1]]

Swapped(arr, i, j) == [arr EXCEPT ![i + 1] = arr[j + 1], ![j + 1] = arr[i + 1]]

Last(s) == s[Len(s)]

IsPrefix(s, t) == Len(s) <= Len(t) /\ \A n \in 1 .. Len(s) : s[n] = t[n]

----------------------------------------------------------------------------
(* selectMRV(k), a closure over empties, rows, cols, boxes and b.          *)

\* for (d = 1; d <= MAX_DIGIT; d++) if (canPlace(...)) candidates.push(d)
candidatesOfDescending(rows, cols, boxes, r, c) ==
  LET up == SelectSeq(DigitSeq, LAMBDA d : canPlace(rows, cols, boxes, r, c, d))
  IN [n \in 1 .. Len(up) |-> up[Len(up) + 1 - n]]

candidatesOf(rows, cols, boxes, r, c) ==
  SelectSeq(DigitSeq, LAMBDA d : canPlace(rows, cols, boxes, r, c, d))

\* the element of a one-element set; TheOnly({ e(x) : x \in {v} }) is e(x)
\* for x = v, with v computed once
TheOnly(S) == CHOOSE y \in S : TRUE

\* The scan of selectMRV(k), given the candidate count of every frontier
\* cell (counts[i] for the cell at index i).  The loop's variables after
\* the entry for index i is pushed are bestCnt = the least count among
\* indices k..i and best = the first index that reached it, since only a
\* strictly smaller count replaces them.  The cell at k is analysed first;
\* the rest is scanned only if it has more than one candidate, and that
\* loop breaks after the first entry with bestCnt = 1.
bestCntAtGreater(counts, k, i) ==
  CHOOSE m \in { counts[j] : j \in k .. i } :
    \A j \in k .. i : m >= counts[j]

bestCntAt(counts, k, i) ==
  CHOOSE m \in { counts[j] : j \in k .. i } :
    \A j \in k .. i : m <= counts[j]

bestAtLastTie(counts, k, i) ==
  CHOOSE j \in k .. i :
    /\ counts[j] = bestCntAt(counts, k, i)
    /\ \A j2 \in (j + 1) .. i : counts[j2] # counts[j]

bestAt(counts, k, i) ==
  CHOOSE j \in k .. i :
    /\ counts[j] = bestCntAt(counts, k, i)
    /\ \A j2 \in k .. (j - 1) : counts[j2] # counts[j]

lastScannedNoHeadCheck(counts, k, len) ==
  LET breaks == { i \in (k + 1) .. (len - 1) : bestCntAt(counts, k, i) = 1 }
  IN IF breaks = {} THEN len - 1
     ELSE CHOOSE i \in breaks : \A i2 \in breaks : i <= i2

lastScannedAtMostOne(counts, k, len) ==
  IF counts[k] > 1
    THEN LET breaks == { i \in (k + 1) .. (len - 1) : bestCntAt(counts, k, i) <= 1 }
         IN IF breaks = {} THEN len - 1
            ELSE CHOOSE i \in breaks : \A i2 \in breaks : i <= i2
    ELSE k

lastScanned(counts, k, len) ==
  IF counts[k] > 1
    THEN LET breaks == { i \in (k + 1) .. (len - 1) : bestCntAt(counts, k, i) = 1 }
         IN IF breaks = {} THEN len - 1
            ELSE CHOOSE i \in breaks : \A i2 \in breaks : i <= i2
    ELSE k

scanFrom(empties, rows, cols, boxes, k) ==
  TheOnly({
    TheOnly({
      [scan |-> [n \in 1 .. (stop - k + 1) |->
                   LET i == k + n - 1
                   IN [i |-> i, r |-> At(empties, i)[1], c |-> At(empties, i)[2],
                       count |-> counts[i],
                       bestIndex |-> bestAt(counts, k, i),
                       bestCount |-> bestCntAt(counts, k, i)]],
       best |-> bestAt(counts, k, stop),
       bestCnt |-> bestCntAt(counts, k, stop)]
      : stop \in { lastScanned(counts, k, Len(empties)) } })
    : counts \in { [i \in k .. (Len(empties) - 1) |->
                     Len(candidatesOf(rows, cols, boxes,
                                      At(empties, i)[1], At(empties, i)[2]))] } })

\* the swap, the final candidates and the snapshots, once the scan is done
selectResultSnapBeforeSwap(empties, rows, cols, boxes, board, k, kCandidates, st) ==
  LET best == st.best
      swap == IF best # k THEN << [k |-> k, best |-> best] >> ELSE << >>
      newEmpties == IF best # k THEN Swapped(empties, k, best) ELSE empties
      r == At(newEmpties, k)[1]
      c == At(newEmpties, k)[2]
      finalCandidates == IF best = k THEN kCandidates
                         ELSE candidatesOf(rows, cols, boxes, r, c)
      emptiesSnap ==
        [n \in 1 .. Len(empties) |->
           LET er == empties[n][1]
               ec == empties[n][2]
               filled == board[er][ec] # "."
           IN [r |-> er, c |-> ec,
               count |-> IF filled THEN 0
                         ELSE Len(candidatesOf(rows, cols, boxes, er, ec)),
               filled |-> filled]]
  IN [r |-> r, c |-> c,
      candidates |-> finalCandidates,
      empties |-> emptiesSnap,
      usage |-> [rows |-> rows, cols |-> cols, boxes |-> boxes],
      scan |-> st.scan,
      swap |-> swap,
      newEmpties |-> newEmpties]

selectResultLiveUsage(empties, rows, cols, boxes, board, k, kCandidates, st) ==
  LET best == st.best
      swap == IF best # k THEN << [k |-> k, best |-> best] >> ELSE << >>
      newEmpties == IF best # k THEN Swapped(empties, k, best) ELSE empties
      r == At(newEmpties, k)[1]
      c == At(newEmpties, k)[2]
      finalCandidates == IF best = k THEN kCandidates
                         ELSE candidatesOf(rows, cols, boxes, r, c)
      emptiesSnap ==
        [n \in 1 .. Len(empties) |->
           LET er == newEmpties[n][1]
               ec == newEmpties[n][2]
               filled == board[er][ec] # "."
           IN [r |-> er, c |-> ec,
               count |-> IF filled THEN 0
                         ELSE Len(candidatesOf(rows, cols, boxes, er, ec)),
               filled |-> filled]]
  IN [r |-> r, c |-> c,
      candidates |-> finalCandidates,
      empties |-> emptiesSnap,
      usage |-> [live |-> TRUE],
      scan |-> st.scan,
      swap |-> swap,
      newEmpties |-> newEmpties]

selectResult(empties, rows, cols, boxes, board, k, kCandidates, st) ==
  LET best == st.best
      swap == IF best # k THEN << [k |-> k, best |-> best] >> ELSE << >>
      newEmpties == IF best # k THEN Swapped(empties, k, best) ELSE empties
      r == At(newEmpties, k)[1]
      c == At(newEmpties, k)[2]
      finalCandidates == IF best = k THEN kCandidates
                         ELSE candidatesOf(rows, cols, boxes, r, c)
      emptiesSnap ==
        [n \in 1 .. Len(empties) |->
           LET er == newEmpties[n][1]
               ec == newEmpties[n][2]
               filled == board[er][ec] # "."
           IN [r |-> er, c |-> ec,
               count |-> IF filled THEN 0
                         ELSE Len(candidatesOf(rows, cols, boxes, er, ec)),
               filled |-> filled]]
  IN [r |-> r, c |-> c,
      candidates |-> finalCandidates,
      empties |-> emptiesSnap,
      usage |-> [rows |-> rows, cols |-> cols, boxes |-> boxes],
      scan |-> st.scan,
      swap |-> swap,
      newEmpties |-> newEmpties]

\* the result object of selectMRV(k), with the empties array as the swap
\* left it in the extra field newEmpties
selectMRV(empties, rows, cols, boxes, board, k) ==
  TheOnly({
    TheOnly({
      selectResult(empties, rows, cols, boxes, board, k, kCandidates, st)
      : st \in { scanFrom(empties, rows, cols, boxes, k) } })
    : kCandidates \in { candidatesOf(rows, cols, boxes,
                                     At(empties, k)[1], At(empties, k)[2]) } })

----------------------------------------------------------------------------
(* The generator.  g.at is the yield at which the generator is suspended   *)
(* ("start" before the first next(), "done" after its return); g.stack     *)
(* holds the dfs frames, outermost first; a frame's n is the number of     *)
(* candidates whose loop iteration has begun.  The operators below return  *)
(* the generator and the heap as a resumption leaves them, together with   *)
(* the step it yields (none when the generator returns).                   *)

solveSudokuMRV(initial) ==
  [at |-> "start", initial |-> initial, stack |-> << >>]

Top(g) == Last(g.stack)

\* b[r][c] = toChar(d); rows[r][d] = cols[c][d] = boxes[bId][d] = true
place(g, h, r, c, d, bId) ==
  [g |-> [g EXCEPT !.rows[r][d] = TRUE, !.cols[c][d] = TRUE,
                   !.boxes[bId][d] = TRUE],
   heap |-> [h EXCEPT ![g.b][r][c] = toChar(d)]]

\* rows[r][d] = cols[c][d] = boxes[bId][d] = false; b[r][c] = '.'
unplaceKeepCol(g, h, r, c, d, bId) ==
  [g |-> [g EXCEPT !.rows[r][d] = FALSE, !.boxes[bId][d] = FALSE],
   heap |-> [h EXCEPT ![g.b][r][c] = "."]]

unplaceKeepRow(g, h, r, c, d, bId) ==
  [g |-> [g EXCEPT !.cols[c][d] = FALSE, !.boxes[bId][d] = FALSE],
   heap |-> [h EXCEPT ![g.b][r][c] = "."]]

unplaceKeepCell(g, h, r, c, d, bId) ==
  [g |-> [g EXCEPT !.rows[r][d] = FALSE, !.cols[c][d] = FALSE,
                   !.boxes[bId][d] = FALSE],
   heap |-> h]

unplace(g, h, r, c, d, bId) ==
  [g |-> [g EXCEPT !.rows[r][d] = FALSE, !.cols[c][d] = FALSE,
                   !.boxes[bId][d] = FALSE],
   heap |-> [h EXCEPT ![g.b][r][c] = "."]]

\* the call dfs(k), up to its first yield
dfsCall(g, h, k) ==
  IF k = Len(g.empties)
    THEN [g |-> [g EXCEPT !.at = "solved", !.stack = Append(@, [k |-> k])],
          heap |-> h,
          yield |-> << [type |-> "solved"] >>]
    ELSE
      TheOnly({
        LET frame == [k |-> k, r |-> picked.r, c |-> picked.c,
                      candidates |-> picked.candidates,
                      bId |-> boxId(picked.r, picked.c), n |-> 0]
        IN [g |-> [g EXCEPT !.at = "selectCell",
                            !.empties = picked.newEmpties,
                            !.stack = Append(@, frame)],
            heap |-> h,
            yield |-> << [type |-> "selectCell", index |-> k,
                          r |-> picked.r, c |-> picked.c,
                          candidates |-> picked.candidates,
                          empties |-> picked.empties,
                          usage |-> picked.usage,
                          scan |-> picked.scan,
                          swap |-> picked.swap] >>]
        : picked \in { selectMRV(g.empties, g.rows, g.cols, g.boxes,
                                 h[g.b], k) } })

\* the top frame returns ok to the frame that called it, which goes on
\* after its yield*: on true it returns true in turn, and so does every
\* frame below it, down to solveSudokuMRV, which returns b; on false it
\* undoes its placement and yields backtrack
dfsReturnInitial(g, h, ok) ==
  TheOnly({
    IF ok \/ popped.stack = << >>
      THEN [g |-> [at |-> "done", initial |-> g.initial, stack |-> << >>,
                   b |-> g.b, empties |-> g.empties, rows |-> g.rows,
                   cols |-> g.cols, boxes |-> g.boxes,
                   finished |-> ok, value |-> g.initial],
            heap |-> h,
            yield |-> << >>]
    ELSE
      LET f == Top(popped)
          d == f.candidates[f.n]
      IN TheOnly({
           [g |-> [u.g EXCEPT !.at = "backtrack"],
            heap |-> u.heap,
            yield |-> << [type |-> "backtrack", r |-> f.r, c |-> f.c,
                          d |-> d] >>]
           : u \in { unplace(popped, h, f.r, f.c, d, f.bId) } })
    : popped \in { [g EXCEPT !.stack = SubSeq(g.stack, 1, Len(g.stack) - 1)] } })

dfsReturnFirstDigit(g, h, ok) ==
  TheOnly({
    IF ok \/ popped.stack = << >>
      THEN [g |-> [at |-> "done", initial |-> g.initial, stack |-> << >>,
                   b |-> g.b, empties |-> g.empties, rows |-> g.rows,
                   cols |-> g.cols, boxes |-> g.boxes,
                   finished |-> ok, value |-> g.b],
            heap |-> h,
            yield |-> << >>]
    ELSE
      LET f == Top(popped)
          d == f.candidates[f.n]
      IN TheOnly({
           [g |-> [u.g EXCEPT !.at = "backtrack"],
            heap |-> u.heap,
            yield |-> << [type |-> "backtrack", r |-> f.r, c |-> f.c,
                          d |-> f.candidates[1]] >>]
           : u \in { unplace(popped, h, f.r, f.c, d, f.bId) } })
    : popped \in { [g EXCEPT !.stack = SubSeq(g.stack, 1, Len(g.stack) - 1)] } })

dfsReturn(g, h, ok) ==
  TheOnly({
    IF ok \/ popped.stack = << >>
      THEN [g |-> [at |-> "done", initial |-> g.initial, stack |-> << >>,
                   b |-> g.b, empties |-> g.empties, rows |-> g.rows,
                   cols |-> g.cols, boxes |-> g.boxes,
                   finished |-> ok, value |-> g.b],
            heap |-> h,
            yield |-> << >>]
    ELSE
      LET f == Top(popped)
          d == f.candidates[f.n]
      IN TheOnly({
           [g |-> [u.g EXCEPT !.at = "backtrack"],
            heap |-> u.heap,
            yield |-> << [type |-> "backtrack", r |-> f.r, c |-> f.c,
                          d |-> d] >>]
           : u \in { unplace(popped, h, f.r, f.c, d, f.bId) } })
    : popped \in { [g EXCEPT !.stack = SubSeq(g.stack, 1, Len(g.stack) - 1)] } })

\* the head of the for loop over candidates in the top frame
dfsLoopSameDigit(g, h) ==
  LET f == Top(g)
      n == IF f.n = 0 THEN 1 ELSE f.n
  IN IF f.n < Len(f.candidates)
       THEN [g |-> [g EXCEPT !.at = "tryDigit", !.stack[Len(g.stack)].n = n],
             heap |-> h,
             yield |-> << [type |-> "tryDigit", r |-> f.r, c |-> f.c,
                           d |-> f.candidates[n]] >>]
       ELSE dfsReturn(g, h, FALSE)

dfsLoop(g, h) ==
  LET f == Top(g)
  IN IF f.n < Len(f.candidates)
       THEN [g |-> [g EXCEPT !.at = "tryDigit", !.stack[Len(g.stack)].n = f.n + 1],
             heap |-> h,
             yield |-> << [type |-> "tryDigit", r |-> f.r, c |-> f.c,
                           d |-> f.candidates[f.n + 1]] >>]
       ELSE dfsReturn(g, h, FALSE)

\* the body of solveSudokuMRV from its first statement to the first yield;
\* new is the address the clone of the board is allocated at
AllCells == [n \in 1 .. (BOARD_SIZE * BOARD_SIZE) |->
               << (n - 1) \div BOARD_SIZE, (n - 1) % BOARD_SIZE >>]

findEmpties(board) ==
  SelectSeq(AllCells, LAMBDA p : ~isDigit(board[p[1]][p[2]]))

closureOf(g, cl) ==
  TheOnly({
    [at |-> g.at, initial |-> g.initial, stack |-> g.stack,
     b |-> cl.ref, empties |-> findEmpties(cl.heap[cl.ref]),
     rows |-> usage.rows, cols |-> usage.cols, boxes |-> usage.boxes]
    : usage \in { buildUsage(cl.heap[cl.ref]) } })

resumeStart(g, h, new) ==
  TheOnly({
    TheOnly({ dfsCall(g0, cl.heap, 0) : g0 \in { closureOf(g, cl) } })
    : cl \in { cloneBoard(h, g.initial, new) } })

\* after yield selectCell
resumeSelectCell(g, h) ==
  IF Len(Top(g).candidates) = 0 THEN dfsReturn(g, h, FALSE) ELSE dfsLoop(g, h)

\* after yield tryDigit
resumeTryDigit(g, h) ==
  LET f == Top(g)
      d == f.candidates[f.n]
  IN TheOnly({
       [g |-> [p.g EXCEPT !.at = "place"],
        heap |-> p.heap,
        yield |-> << [type |-> "place", r |-> f.r, c |-> f.c, d |-> d] >>]
       : p \in { place(g, h, f.r, f.c, d, f.bId) } })

\* after yield place
resumePlaceSameLevel(g, h) == dfsCall(g, h, Top(g).k)

resumePlace(g, h) == dfsCall(g, h, Top(g).k + 1)

\* after yield backtrack
resumeBacktrack(g, h) == dfsLoop(g, h)

\* after yield solved
resumeSolvedFalse(g, h) == dfsReturn(g, h, FALSE)

resumeSolved(g, h) == dfsReturn(g, h, TRUE)

----------------------------------------------------------------------------
(* Initial boards.  A board is written as nine numbers, one per row, whose *)
(* decimal digits are the cells of the row and 0 is an empty cell.         *)

ParseBoard(rowNumbers) ==
  [r \in Idx |-> [c \in Idx |->
     LET v == (rowNumbers[r + 1] \div (10 ^ (8 - c))) % 10
     IN IF v = 0 THEN "." ELSE DigitChars[v]]]

\* rule-consistent boards: without completion (1, 2, 3, 5, 6, 8), with one
\* that the search reaches after backtracking (4, 7, 11), the sample of
\* the documentation (9) and the empty board (10)
PuzzleRows ==
  << <<500800, 0, 90040030, 800791000, 0, 5600000, 6980, 21830000, 470050002>>,
     <<300050000, 20009, 60700, 70090024, 8000, 1000905, 851, 810000, 60000407>>,
     <<300705, 203080000, 905100000, 708419000, 70, 400600000, 160800000,
       70000000, 5000>>,
     <<123456080, 456789123, 789123456, 261934875, 804517602, 500268014,
       312605048, 45001200, 978342561>>,
     <<30014, 25000, 800069007, 40, 706000, 700380200, 400817060, 32000080,
       50000090>>,
     <<908000700, 0, 50000200, 60000000, 8000, 10090030, 3070000, 807900005,
       600000000>>,
     <<900000, 4030007, 200630, 38700400, 810000, 90060000, 80620005, 50700,
       60174300>>,
     <<89000000, 300000006, 325008, 790851032, 6000, 800709004, 73080060,
       6000521, 520413907>>,
     <<530070000, 600195000, 98000060, 800060003, 400803001, 700020006,
       60000280, 419005, 80079>>,
     <<0, 0, 0, 0, 0, 0, 0, 0, 0>>,
     <<278000000, 340050000, 509030000, 50610300, 80005000, 98140, 20006,
       204, 20040001>> >>

Puzzle(n) == ParseBoard(PuzzleRows[n])

EmptyBoard == [r \in Idx |-> [c \in Idx |-> "."]]

\* a complete valid grid and the boards got from it by emptying cells
SolvedRows ==
  <<123456789, 456789123, 789123456, 261934875, 834517692, 597268314,
    312675948, 645891237, 978342561>>

HoleCells == << <<3, 2>>, <<3, 7>>, <<5, 2>>, <<5, 7>>, <<0, 0>>, <<8, 8>>,
                <<4, 4>>, <<0, 8>> >>

Dig(board, holes) ==
  [r \in Idx |-> [c \in Idx |-> IF <<r, c>> \in holes THEN "." ELSE board[r][c]]]

DugBoards(maxHoles) ==
  { Dig(ParseBoard(SolvedRows), { HoleCells[n] : n \in S }) :
      S \in SUBSET (1 .. maxHoles) }

NumPuzzles == 10
MaxHoles == 5
NumPairPuzzles == 5
MaxPairHoles == 3

Boards == { Puzzle(n) : n \in 1 .. NumPuzzles } \cup DugBoards(MaxHoles)

PairBoards == { Puzzle(n) : n \in 1 .. NumPairPuzzles } \cup DugBoards(MaxPairHoles)

----------------------------------------------------------------------------
(* The state machine: the caller creates the generators on its board and   *)
(* requests steps from them in any order.                                  *)

InitRuns(boards, runs) ==
  /\ puzzle \in boards
  /\ heap = (0 :> puzzle)
  /\ gen = [i \in runs |-> solveSudokuMRV(0)]
  /\ yielded = [i \in runs |-> << >>]
  /\ trace = [i \in runs |-> << >>]
  /\ saved = [i \in runs |-> << >>]
  /\ hook = [mounted |-> FALSE]
  /\ abandoned = "none"
  /\ emitted = [i \in runs |-> << >>]
  /\ validation = [issues |-> << >>]
  /\ arg = << >>
  /\ ret = << >>
  /\ acted = [name |-> "none"]
  /\ visual = << >>
  /\ added = << >>

Init == InitRuns(Boards, {1})

InitPair == InitRuns(PairBoards, {1, 2})

\* the record of the state at a tryDigit step
Snapshot(g, h, step) ==
  [board |-> h[g.b], rows |-> g.rows, cols |-> g.cols, boxes |-> g.boxes,
   r |-> step.r, c |-> step.c, d |-> step.d]

SavedAfter(old, m) ==
  IF m.yield = << >> THEN old
  ELSE LET step == m.yield[1]
           level == Len(m.g.stack) - 1
       IN IF step.type = "tryDigit"
            THEN Append(SubSeq(old, 1, level), Snapshot(m.g, m.heap, step))
          ELSE IF step.type = "backtrack"
            THEN SubSeq(old, 1, level + 1)
          ELSE old

\* a step as the trace keeps it
Brief(step) ==
  IF step.type = "selectCell"
    THEN [type |-> "selectCell", index |-> step.index, r |-> step.r,
          c |-> step.c, candidates |-> step.candidates, swap |-> step.swap]
    ELSE step

\* what the holder of a step object reads from it while the generator is
\* in state g: a part of the step that is one of the generator's own
\* arrays shows what that array holds now, a part that is a copy shows
\* what was copied
Read(step, g) ==
  [step EXCEPT !.usage = IF "live" \in DOMAIN @
                           THEN [rows |-> g.rows, cols |-> g.cols,
                                 boxes |-> g.boxes]
                           ELSE @]

EmittedAfter(old, m) ==
  IF m.yield = << >> THEN old
  ELSE LET step == m.yield[1]
       IN IF step.type = "selectCell"
            THEN Append(old, [step |-> step, seen |-> Read(step, m.g)])
            ELSE old

\* the IteratorResult of a next() that resumption m serves
IteratorResult(m) ==
  IF m.yield = << >>
    THEN [done |-> TRUE, value |-> [ref |-> m.g.value]]
    ELSE [done |-> FALSE, value |-> m.yield[1]]

\* generator i goes from its state to the one the resumption m leaves
Resume(i, m) ==
  /\ gen' = [gen EXCEPT ![i] = m.g]
  /\ heap' = m.heap
  /\ yielded' = [yielded EXCEPT ![i] = << IteratorResult(m) >>]
  /\ trace' = [trace EXCEPT ![i] =
                 IF m.yield = << >> THEN @ ELSE Append(@, Brief(m.yield[1]))]
  /\ saved' = [saved EXCEPT ![i] = SavedAfter(@, m)]
  /\ emitted' = [emitted EXCEPT ![i] = EmittedAfter(@, m)]
  /\ UNCHANGED <<puzzle, hook, abandoned, validation, arg, ret, acted, visual, added>>

NextFromStart ==
  \E i \in DOMAIN gen :
  /\ gen[i].at = "start"
  /\ \E m \in { resumeStart(gen[i], heap, i) } : Resume(i, m)

NextAfterSelectCell ==
  \E i \in DOMAIN gen :
  /\ gen[i].at = "selectCell"
  /\ \E m \in { resumeSelectCell(gen[i], heap) } : Resume(i, m)

NextAfterTryDigit ==
  \E i \in DOMAIN gen :
  /\ gen[i].at = "tryDigit"
  /\ \E m \in { resumeTryDigit(gen[i], heap) } : Resume(i, m)

NextAfterPlace ==
  \E i \in DOMAIN gen :
  /\ gen[i].at = "place"
  /\ \E m \in { resumePlace(gen[i], heap) } : Resume(i, m)

NextAfterBacktrack ==
  \E i \in DOMAIN gen :
  /\ gen[i].at = "backtrack"
  /\ \E m \in { resumeBacktrack(gen[i], heap) } : Resume(i, m)

NextAfterSolved ==
  \E i \in DOMAIN gen :
  /\ gen[i].at = "solved"
  /\ \E m \in { resumeSolved(gen[i], heap) } : Resume(i, m)

Next ==
    \/ NextFromStart
    \/ NextAfterSelectCell
    \/ NextAfterTryDigit
    \/ NextAfterPlace
    \/ NextAfterBacktrack
    \/ NextAfterSolved

Spec == Init /\ [][Next]_vars

SpecPair == InitPair /\ [][Next]_vars

\* a consumer that keeps requesting steps
FairSpec == Init /\ [][Next]_vars /\ WF_vars(Next)

----------------------------------------------------------------------------
(* The hook useSolverStateImmer.  hook.board, hook.initialRef and the      *)
(* generator's boards are addresses of board objects on the heap: 0 is the *)
(* board initializePuzzle is given, which becomes the state's board, -1 is *)
(* its clone kept in initialRef.current, -2 is the copy Immer makes when a *)
(* draft board is written, and i >= 1 is the working board of the i-th     *)
(* generator created since the last initializePuzzle.  The heap and gen    *)
(* hold the objects that can still be reached: initializePuzzle, which     *)
(* drops the generator, leaves the two boards it sets.  null is the empty  *)
(* sequence and a value v that may be null is <<v>>.  React commits the    *)
(* updates a callback queued before another callback runs, so each         *)
(* callback is one action and stepOnce reads the board of the latest       *)
(* state.                                                                  *)

\* genRef.current.next()
next(g, h, i) ==
  CASE g.at = "start" -> resumeStart(g, h, i)
    [] g.at = "selectCell" -> resumeSelectCell(g, h)
    [] g.at = "tryDigit" -> resumeTryDigit(g, h)
    [] g.at = "place" -> resumePlace(g, h)
    [] g.at = "backtrack" -> resumeBacktrack(g, h)
    [] g.at = "solved" -> resumeSolved(g, h)

\* metrics: { steps: 0, selects: 0, tries: 0, places: 0, backtracks: 0,
\* nodes: 0 }
noMetrics ==
  [steps |-> 0, selects |-> 0, tries |-> 0, places |-> 0, backtracks |-> 0,
   nodes |-> 0]

initializePuzzleKeepGenerator(hk, h, p) ==
  TheOnly({
    [hook |-> [mounted |-> TRUE, board |-> 0, running |-> FALSE,
               finished |-> FALSE, history |-> << >>, viewIndex |-> << >>,
               stepCount |-> 0, metrics |-> noMetrics,
               genRef |-> IF hk.mounted THEN hk.genRef ELSE << >>,
               initialRef |-> cl.ref],
     heap |-> cl.heap @@ h]
    : cl \in { cloneBoard((0 :> h[p]), 0, -1) } })

initializePuzzle(hk, h, p) ==
  TheOnly({
    [hook |-> [mounted |-> TRUE, board |-> 0, running |-> FALSE,
               finished |-> FALSE, history |-> << >>, viewIndex |-> << >>,
               stepCount |-> 0, metrics |-> noMetrics,
               genRef |-> << >>, initialRef |-> cl.ref],
     heap |-> cl.heap]
    : cl \in { cloneBoard((0 :> h[p]), 0, -1) } })

\* reset gives initializePuzzle the board initialRef.current holds
reset(hk, h) ==
  IF Cardinality(DOMAIN h[hk.initialRef]) > 0
    THEN initializePuzzle(hk, h, hk.initialRef)
    ELSE [hook |-> hk, heap |-> h]

\* draft.history.push(snapshot)
pushSnapshot(hk, event, board) ==
  [hk EXCEPT !.history = Append(@, [idx |-> Len(@), event |-> event,
                                    board |-> board])]

\* the cells in which two boards differ, in row-major order
getBoardDelta(oldBoard, newBoard) ==
  LET changed == SelectSeq(AllCells,
                   LAMBDA p : oldBoard[p[1]][p[2]] # newBoard[p[1]][p[2]])
  IN [n \in 1 .. Len(changed) |->
        [r |-> changed[n][1], c |-> changed[n][2],
         oldValue |-> oldBoard[changed[n][1]][changed[n][2]],
         newValue |-> newBoard[changed[n][1]][changed[n][2]]]]

\* draft.history.push(snapshot) of a snapshot with deltaFromPrevious
pushDelta(hk, event, board, boardChanges) ==
  [hk EXCEPT !.history =
     Append(@, [idx |-> Len(@), event |-> event, board |-> board,
                deltaFromPrevious |-> [boardChanges |-> boardChanges]])]

\* draft.board[r][c] = ch, on a draft: Immer writes to a copy
writeDraftTransposed(hk, h, r, c, ch) ==
  [hook |-> [hk EXCEPT !.board = -2],
   heap |-> (-2 :> [h[hk.board] EXCEPT ![c][r] = ch]) @@ h]

writeDraft(hk, h, r, c, ch) ==
  [hook |-> [hk EXCEPT !.board = -2],
   heap |-> (-2 :> [h[hk.board] EXCEPT ![r][c] = ch]) @@ h]

\* stepOnce from the IteratorResult res of next() on; the value of a
\* finished generator is always a board, so that the branch for another
\* value is never taken
stepOnce(hk, h, res) ==
  IF res.done
    THEN LET finalBoard == res.value.ref
             solved == \A r \in Idx : \A c \in Idx : h[finalBoard][r][c] # "."
         IN [hook |-> [hk EXCEPT
                         !.board = finalBoard, !.running = FALSE,
                         !.finished = TRUE, !.genRef = << >>,
                         !.history = Append(@,
                            [idx |-> Len(@), event |-> "final",
                             board |-> h[finalBoard],
                             note |-> IF solved THEN "Solved"
                                      ELSE "No solution",
                             deltaFromPrevious |->
                               [boardChanges |->
                                  getBoardDelta(h[finalBoard],
                                                h[finalBoard])]])],
             heap |-> h]
  ELSE
    LET step == res.value
        newStepCount == hk.stepCount + 1
        newMetrics == [hk.metrics EXCEPT !.steps = newStepCount]
        counted == [hk EXCEPT !.stepCount = newStepCount]
        \* draft.currentStep.metrics = newMetrics, in the branch of the step
        measured ==
          [counted EXCEPT !.metrics =
             CASE step.type = "selectCell" ->
                    [newMetrics EXCEPT !.selects = @ + 1, !.nodes = @ + 1]
               [] step.type = "tryDigit" -> [newMetrics EXCEPT !.tries = @ + 1]
               [] step.type = "place" -> [newMetrics EXCEPT !.places = @ + 1]
               [] step.type = "backtrack" ->
                    [newMetrics EXCEPT !.backtracks = @ + 1]]
    IN CASE step.type \in {"selectCell", "tryDigit"} ->
              [hook |-> pushSnapshot(measured, step.type, h[hk.board]),
               heap |-> h]
         \* oldBoard is draft.board, the object the write goes to, and
         \* oldValue is read from it after the write
         [] step.type = "place" ->
              TheOnly({
                LET oldBoard == w.hook.board
                IN [hook |-> pushDelta(w.hook, "place", w.heap[w.hook.board],
                               << [r |-> step.r, c |-> step.c,
                                   oldValue |-> w.heap[oldBoard][step.r][step.c],
                                   newValue |-> toChar(step.d)] >>),
                    heap |-> w.heap]
                : w \in { writeDraft(measured, h, step.r, step.c,
                                     toChar(step.d)) } })
         [] step.type = "backtrack" ->
              TheOnly({
                LET oldBoard == w.hook.board
                IN [hook |-> pushDelta(w.hook, "backtrack",
                               w.heap[w.hook.board],
                               << [r |-> step.r, c |-> step.c,
                                   oldValue |-> w.heap[oldBoard][step.r][step.c],
                                   newValue |-> "."] >>),
                    heap |-> w.heap]
                : w \in { writeDraft(measured, h, step.r, step.c, ".") } })
         \* no branch of stepOnce is for a solved step: the step is counted
         \* and newMetrics is dropped
         [] step.type = "solved" -> [hook |-> counted, heap |-> h]

startKeepView(hk) == [hk EXCEPT !.running = TRUE]

start(hk) == [hk EXCEPT !.running = TRUE, !.viewIndex = << >>]

pause(hk) == [hk EXCEPT !.running = FALSE]

viewSnapshot(hk, index) == [hk EXCEPT !.running = FALSE, !.viewIndex = <<index>>]

viewLive(hk) == [hk EXCEPT !.viewIndex = << >>]

\* the boards given to the hook, the generators one behaviour creates and
\* the snapshot indices viewed
HookPuzzles == <<1, 5, 4, 2>>

NumHookPuzzles == 3
MaxHookHoles == 3
MaxRuns == 2
MaxViewIndex == 1

HookBoards ==
  { Puzzle(HookPuzzles[n]) : n \in 1 .. NumHookPuzzles } \cup DugBoards(MaxHookHoles)

\* the hook after the caller's first initializePuzzle
InitHook ==
  /\ puzzle \in HookBoards
  /\ \E s \in { initializePuzzle([mounted |-> FALSE], (0 :> puzzle), 0) } :
       heap = s.heap /\ hook = s.hook
  /\ gen = << >>
  /\ yielded = << >>
  /\ trace = << >>
  /\ saved = << >>
  /\ abandoned = "none"
  /\ emitted = << >>
  /\ validation = [issues |-> << >>]
  /\ arg = << >>
  /\ ret = << >>
  /\ acted = [name |-> "none"]
  /\ visual = << >>
  /\ added = << >>

\* a call of stepOnce, as it changes the hook and its generators
Stepping ==
  /\ hook.genRef # << >> \/ Len(gen) < MaxRuns
  /\ LET new == hook.genRef = << >>
         i == IF new THEN Len(gen) + 1 ELSE hook.genRef[1]
         g == IF new THEN solveSudokuMRV(hook.board) ELSE gen[i]
     IN \E m \in { next(g, heap, i) } :
        \E s \in { stepOnce([hook EXCEPT !.genRef = <<i>>], m.heap,
                            IteratorResult(m)) } :
          /\ gen' = IF new THEN Append(gen, m.g) ELSE [gen EXCEPT ![i] = m.g]
          /\ yielded' = IF new THEN Append(yielded, << IteratorResult(m) >>)
                        ELSE [yielded EXCEPT ![i] = << IteratorResult(m) >>]
          /\ trace' = IF new THEN Append(trace, << Brief(m.yield[1]) >>)
                      ELSE [trace EXCEPT ![i] =
                              IF m.yield = << >> THEN @
                              ELSE Append(@, Brief(m.yield[1]))]
          /\ saved' = IF new THEN Append(saved, SavedAfter(<< >>, m))
                      ELSE [saved EXCEPT ![i] = SavedAfter(@, m)]
          /\ emitted' = IF new THEN Append(emitted, EmittedAfter(<< >>, m))
                        ELSE [emitted EXCEPT ![i] = EmittedAfter(@, m)]
          /\ heap' = s.heap
          /\ hook' = s.hook
          /\ UNCHANGED <<puzzle, abandoned>>

StepOnce == Stepping /\ UNCHANGED <<validation, arg, ret, acted, visual, added>>

Start ==
  /\ hook' = start(hook)
  /\ UNCHANGED <<heap, gen, yielded, trace, saved, puzzle, abandoned, emitted,
               validation, arg, ret, acted, visual, added>>

Pause ==
  /\ hook' = pause(hook)
  /\ UNCHANGED <<heap, gen, yielded, trace, saved, puzzle, abandoned, emitted,
               validation, arg, ret, acted, visual, added>>

ViewSnapshot ==
  \E index \in 0 .. MaxViewIndex :
    /\ index < Len(hook.history)
    /\ hook' = viewSnapshot(hook, index)
    /\ UNCHANGED <<heap, gen, yielded, trace, saved, puzzle, abandoned, emitted,
               validation, arg, ret, acted, visual, added>>

ViewLive ==
  /\ hook' = viewLive(hook)
  /\ UNCHANGED <<heap, gen, yielded, trace, saved, puzzle, abandoned, emitted,
               validation, arg, ret, acted, visual, added>>

Dropped ==
  /\ gen' = << >>
  /\ yielded' = << >>
  /\ trace' = << >>
  /\ saved' = << >>
  /\ emitted' = << >>

\* where the hook stands: a generator suspended between two steps, with
\* the timer on or off, a run that has ended, or no step taken yet
Standing ==
  IF hook.genRef # << >>
    THEN (IF hook.running THEN "midrun" ELSE "paused")
  ELSE IF hook.finished THEN "finished"
  ELSE "fresh"

\* a call of reset, as it changes the hook and its generators
Resetting ==
  \E s \in { reset(hook, heap) } :
    /\ hook' = s.hook
    /\ heap' = s.heap
    /\ IF s.hook.genRef = << >>
         THEN Dropped /\ abandoned' = Standing
         ELSE UNCHANGED <<gen, yielded, trace, saved, abandoned, emitted>>
    /\ UNCHANGED puzzle

Reset == Resetting /\ UNCHANGED <<validation, arg, ret, acted, visual, added>>

\* a call of initializePuzzle with a new board that holds p
Initializing(p) ==
  /\ puzzle' = p
  /\ \E s \in { initializePuzzle(hook, (0 :> p), 0) } :
       /\ hook' = s.hook
       /\ heap' = s.heap
  /\ Dropped
  /\ abandoned' = Standing

InitializePuzzle ==
  \E p \in HookBoards :
    Initializing(p) /\ UNCHANGED <<validation, arg, ret, acted, visual, added>>

NextHook ==
    \/ StepOnce
    \/ Start
    \/ Pause
    \/ ViewSnapshot
    \/ ViewLive
    \/ Reset
    \/ InitializePuzzle

SpecHook == InitHook /\ [][NextHook]_vars

----------------------------------------------------------------------------
(* Vocabulary of the properties.                                           *)

Runs == DOMAIN gen

Started(i) == gen[i].at # "start"

Done(i) == gen[i].at = "done"

\* the working board of run i
WorkingBoard(i) == heap[gen[i].b]

\* the step run i is suspended at
LastStep(i) == yielded[i][1].value

\* the board the generator of run i returned
FinalBoard(i) == heap[yielded[i][1].value.ref]

Emitted(i, type) == \E n \in 1 .. Len(trace[i]) : trace[i][n].type = type

CountOf(i, type) == Cardinality({ n \in 1 .. Len(trace[i]) : trace[i][n].type = type })

\* digit d stands in cell (r, c) of the board
Holds(board, r, c, d) == board[r][c] = DigitChars[d]

InRow(board, r, d) == \E c \in Idx : Holds(board, r, c, d)

InCol(board, c, d) == \E r \in Idx : Holds(board, r, c, d)

BoxCells(x) ==
  { <<(x \div 3) * 3 + dr, (x % 3) * 3 + dc>> : dr \in 0 .. 2, dc \in 0 .. 2 }

InBox(board, x, d) == \E p \in BoxCells(x) : Holds(board, p[1], p[2], d)

\* the number of digits that stand neither in the row, nor in the column,
\* nor in the 3x3 block of cell (r, c)
FreeDigits(board, r, c) ==
  { d \in Digits :
      /\ ~InRow(board, r, d)
      /\ ~InCol(board, c, d)
      /\ ~InBox(board, (r \div 3) * 3 + (c \div 3), d) }

\* every digit exactly once in every row, column and block
ValidGrid(board) ==
  \A u \in Idx : \A d \in Digits :
    /\ Cardinality({ c \in Idx : Holds(board, u, c, d) }) = 1
    /\ Cardinality({ r \in Idx : Holds(board, r, u, d) }) = 1
    /\ Cardinality({ p \in BoxCells(u) : Holds(board, p[1], p[2], d) }) = 1

\* the filled cells of the puzzle hold the same digit in the board
KeepsClues(board) ==
  \A r \in Idx : \A c \in Idx : puzzle[r][c] # "." => board[r][c] = puzzle[r][c]

----------------------------------------------------------------------------
\* C1: whenever the generator is suspended after a step, and when it has
\* finished, the usage tables are those buildUsage gives for the working
\* board: rows[r][d], cols[c][d], boxes[x][d] are true iff digit d stands
\* in row r, column c, block x of the board.
C1_UsageMatchesBoard ==
  \A i \in Runs :
    Started(i) =>
      /\ [rows |-> gen[i].rows, cols |-> gen[i].cols, boxes |-> gen[i].boxes]
           = buildUsage(WorkingBoard(i))
      /\ \A u \in Idx : \A d \in Digits :
           /\ gen[i].rows[u][d] <=> InRow(WorkingBoard(i), u, d)
           /\ gen[i].cols[u][d] <=> InCol(WorkingBoard(i), u, d)
           /\ gen[i].boxes[u][d] <=> InBox(WorkingBoard(i), u, d)

\* a run is suspended at a backtrack step of an inner level: placements
\* have been made and one has been undone
C1_Witness ==
  \E i \in Runs : gen[i].at = "backtrack" /\ Len(gen[i].stack) >= 2

----------------------------------------------------------------------------
\* the candidate count of the frontier cell at index j of run i, from the
\* board as it is
FrontierCount(i, j) ==
  Cardinality(FreeDigits(WorkingBoard(i), At(gen[i].empties, j)[1],
                         At(gen[i].empties, j)[2]))

\* C2 as stated: at every selectCell step the selected cell has no more
\* candidates than any undecided cell (frontier positions k..end).
C2_SelectedIsMinimum ==
  \A i \in Runs :
    gen[i].at = "selectCell" =>
      \A j \in LastStep(i).index .. (Len(gen[i].empties) - 1) :
        Len(LastStep(i).candidates) <= FrontierCount(i, j)

\* C2 as amended: at every selectCell step the selected cell has no more
\* candidates than any cell the scan visited, and, unless it has exactly
\* one candidate, no more than any undecided cell; with one candidate the
\* scan has stopped early and a cell it did not visit may have none.
C2_SelectedIsMinimumOfScanned ==
  \A i \in Runs :
    gen[i].at = "selectCell" =>
      LET k == LastStep(i).index
          n == Len(LastStep(i).candidates)
      IN /\ n = FrontierCount(i, k)
         /\ \A j \in k .. (k + Len(LastStep(i).scan) - 1) : n <= FrontierCount(i, j)
         /\ n # 1 => \A j \in k .. (Len(gen[i].empties) - 1) : n <= FrontierCount(i, j)

\* a selectCell step that chose, by a swap, a cell with at least two
\* candidates after scanning the whole frontier
C2_Witness ==
  \E i \in Runs :
    /\ gen[i].at = "selectCell"
    /\ Len(LastStep(i).candidates) >= 2
    /\ LastStep(i).swap # << >>
    /\ LastStep(i).index + Len(LastStep(i).scan) = Len(gen[i].empties)

----------------------------------------------------------------------------
\* C3: when a run that yielded a solved step has finished, the board it
\* returned has every digit once in every row, column and block, and every
\* clue of the initial board is still in its cell.
C3_SolvedBoardValid ==
  \A i \in Runs :
    (Done(i) /\ Emitted(i, "solved")) =>
      /\ ValidGrid(FinalBoard(i))
      /\ KeepsClues(FinalBoard(i))

\* a run on a board with clues has finished after a solved step, having
\* backtracked on the way
C3_Witness ==
  \E i \in Runs :
    /\ Done(i)
    /\ Emitted(i, "solved")
    /\ Emitted(i, "backtrack")
    /\ puzzle # EmptyBoard

----------------------------------------------------------------------------
\* no digit twice in a row, a column or a block
RuleConsistent(board) ==
  \A u \in Idx : \A d \in Digits :
    /\ Cardinality({ c \in Idx : Holds(board, u, c, d) }) <= 1
    /\ Cardinality({ r \in Idx : Holds(board, r, u, d) }) <= 1
    /\ Cardinality({ p \in BoxCells(u) : Holds(board, p[1], p[2], d) }) <= 1

\* where the search of run i stands: for every level of the recursion the
\* number of candidates begun and how far the current one has got
\* (0 selected, 1 tried, 2 placed, 3 a deeper level is open, 4 undone)
Progress(i) ==
  [j \in 1 .. Len(gen[i].stack) |->
     IF "n" \notin DOMAIN gen[i].stack[j] THEN <<0, 0>>
     ELSE << gen[i].stack[j].n,
             IF j < Len(gen[i].stack) THEN 3
             ELSE CASE gen[i].at = "selectCell" -> 0
                    [] gen[i].at = "tryDigit" -> 1
                    [] gen[i].at = "place" -> 2
                    [] gen[i].at = "backtrack" -> 4 >>]

PairLess(x, y) == x[1] < y[1] \/ (x[1] = y[1] /\ x[2] < y[2])

\* a comes before b in the lexicographic order
LexLess(a, b) ==
  \E p \in 1 .. Len(b) :
    /\ \A q \in 1 .. (p - 1) : q <= Len(a) /\ a[q] = b[q]
    /\ p > Len(a) \/ PairLess(a[p], b[p])

\* every resumption of a run finishes it or moves its search forward
Advances(i) ==
  gen[i]' # gen[i] =>
    /\ ~Done(i)
    /\ Done(i)' \/ LexLess(Progress(i), Progress(i)')

AllFinished ==
  \A i \in Runs :
    /\ Done(i)
    /\ puzzle = EmptyBoard =>
         /\ Emitted(i, "solved")
         /\ ValidGrid(FinalBoard(i))

\* C4: on a rule-consistent initial board every resumption moves the
\* search forward in a bounded lexicographic order (at most nine
\* candidates on each of at most 81 levels), and a consumer that keeps
\* requesting steps eventually sees the generator finish; on the all-empty
\* board it has then yielded solved and returned a complete valid grid.
C4_EveryRunFinishes ==
  /\ [][\A i \in Runs : Advances(i)]_vars
  /\ RuleConsistent(puzzle) => <>AllFinished

\* the run on the all-empty board has finished after a solved step
C4_Witness ==
  \E i \in Runs :
    /\ Done(i)
    /\ puzzle = EmptyBoard
    /\ RuleConsistent(puzzle)
    /\ CountOf(i, "solved") = 1

----------------------------------------------------------------------------
\* the empty cells of a board
OpenCells(board) == { p \in Idx \X Idx : board[p[1]][p[2]] = "." }

\* some way of filling the empty cells of the board gives a valid grid:
\* decided by exhaustive search over the digits free for a cell that has
\* the fewest of them
RECURSIVE HasCompletion(_)
HasCompletion(board) ==
  IF OpenCells(board) = {} THEN ValidGrid(board)
  ELSE TheOnly({
         LET p == CHOOSE p \in DOMAIN free :
                    \A q \in DOMAIN free :
                      Cardinality(free[p]) <= Cardinality(free[q])
         IN \E d \in free[p] :
              HasCompletion([board EXCEPT ![p[1]][p[2]] = DigitChars[d]])
         : free \in { [p \in OpenCells(board) |-> FreeDigits(board, p[1], p[2])] } })

\* C5: when a run on a rule-consistent board that has no valid completion
\* has finished, it has yielded no solved step, the board it returned
\* equals the initial board cell for cell, the caller's board is as it
\* was, and the usage tables are those of the initial board.
C5_NoCompletionRestoresBoard ==
  \A i \in Runs :
    (Done(i) /\ RuleConsistent(puzzle) /\ ~HasCompletion(puzzle)) =>
      /\ ~Emitted(i, "solved")
      /\ FinalBoard(i) = puzzle
      /\ heap[gen[i].initial] = puzzle
      /\ \A p \in OpenCells(puzzle) : WorkingBoard(i)[p[1]][p[2]] = "."
      /\ [rows |-> gen[i].rows, cols |-> gen[i].cols, boxes |-> gen[i].boxes]
           = buildUsage(puzzle)

\* a run on a board without completion has finished after placing and
\* undoing digits
C5_Witness ==
  \E i \in Runs :
    /\ Done(i)
    /\ RuleConsistent(puzzle)
    /\ ~HasCompletion(puzzle)
    /\ CountOf(i, "backtrack") >= 2
    /\ FinalBoard(i) = puzzle

----------------------------------------------------------------------------
\* the value of the IteratorResult that ends run i
Result(i) == yielded[i][1].value

----------------------------------------------------------------------------
\* what follows the last step when the run is over
End == [type |-> "end"]

\* the number of placements standing after the first n steps of t
Depth(t, n) ==
  Cardinality({ m \in 1 .. n : t[m].type = "place" })
    - Cardinality({ m \in 1 .. n : t[m].type = "backtrack" })

Latest(S) == CHOOSE m \in S : \A x \in S : x <= m

\* the latest selectCell of level k among the first n steps of t
SelectAt(t, n, k) ==
  t[Latest({ m \in 1 .. n : t[m].type = "selectCell" /\ t[m].index = k })]

\* the latest placement into the cell of level k among the first n steps
PlacedAt(t, n, k) ==
  t[Latest({ m \in 1 .. n :
               /\ t[m].type = "place"
               /\ t[m].r = SelectAt(t, n, k).r
               /\ t[m].c = SelectAt(t, n, k).c })]

\* level k has no candidate left to try: b is the backtrack of the
\* placement of the enclosing level, or the end of the run at level 0
LeavesLevel(t, n, k, b) ==
  IF k = 0 THEN b = End
  ELSE b = [type |-> "backtrack", r |-> PlacedAt(t, n, k - 1).r,
            c |-> PlacedAt(t, n, k - 1).c, d |-> PlacedAt(t, n, k - 1).d]

\* b is what the search order puts right after step n of t
Follows(t, n, b) ==
  LET a == t[n]
  IN CASE a.type = "selectCell" ->
            IF a.candidates # << >>
              THEN b = [type |-> "tryDigit", r |-> a.r, c |-> a.c,
                        d |-> a.candidates[1]]
              ELSE LeavesLevel(t, n, a.index, b)
       [] a.type = "tryDigit" ->
            b = [type |-> "place", r |-> a.r, c |-> a.c, d |-> a.d]
       [] a.type = "place" ->
            IF Depth(t, n) = Cardinality(OpenCells(puzzle))
              THEN b = [type |-> "solved"]
              ELSE b.type = "selectCell" /\ b.index = Depth(t, n)
       [] a.type = "backtrack" ->
            LET k == Depth(t, n)
                larger == { x \in Digits :
                              /\ x > a.d
                              /\ \E q \in DOMAIN SelectAt(t, n, k).candidates :
                                   SelectAt(t, n, k).candidates[q] = x }
            IN /\ SelectAt(t, n, k).r = a.r
               /\ SelectAt(t, n, k).c = a.c
               /\ IF larger # {}
                    THEN b = [type |-> "tryDigit", r |-> a.r, c |-> a.c,
                              d |-> CHOOSE x \in larger : \A y \in larger : x <= y]
                    ELSE LeavesLevel(t, n, k, b)
       [] a.type = "solved" -> b = End

\* C7: the first step of a run is the selectCell of level 0 (solved when
\* the board has no empty cell); every later step is the one the search
\* order puts after its predecessor: tryDigit of the first candidate after
\* a selectCell with candidates, place after tryDigit, the selectCell of
\* the next level or solved after place, tryDigit of the next larger
\* candidate after backtrack or, when none is left (and after a selectCell
\* without candidates), the backtrack of the enclosing level; and the run
\* ends only where the order ends.
C7_StepsFollowSearchOrder ==
  \A i \in Runs :
    LET t == trace[i]
    IN /\ (Started(i) /\ ~Done(i)) =>
            (Len(t) >= 1 /\ Brief(LastStep(i)) = Last(t))
       /\ Len(t) >= 1 =>
            IF OpenCells(puzzle) = {} THEN t[1] = [type |-> "solved"]
            ELSE t[1].type = "selectCell" /\ t[1].index = 0
       /\ (Len(t) >= 2 /\ ~Done(i)) => Follows(t, Len(t) - 1, Last(t))
       /\ Done(i) => (Len(t) >= 1 /\ Follows(t, Len(t), End))

\* a backtrack that left no candidate has been followed by the backtrack
\* of the enclosing level
C7_Witness ==
  \E i \in Runs :
    /\ Len(trace[i]) >= 2
    /\ trace[i][Len(trace[i]) - 1].type = "backtrack"
    /\ Last(trace[i]).type = "backtrack"
    /\ Follows(trace[i], Len(trace[i]) - 1, Last(trace[i]))

----------------------------------------------------------------------------
\* C8: at every backtrack(r, c, d) step the working board and the three
\* usage tables are what they were at the matching tryDigit(r, c, d) step,
\* the step right before the digit was placed.
C8_UndoRestoresState ==
  \A i \in Runs :
    gen[i].at = "backtrack" =>
      /\ Len(saved[i]) = Len(gen[i].stack)
      /\ Last(saved[i]).r = LastStep(i).r
      /\ Last(saved[i]).c = LastStep(i).c
      /\ Last(saved[i]).d = LastStep(i).d
      /\ Last(saved[i]).board = WorkingBoard(i)
      /\ Last(saved[i]).rows = gen[i].rows
      /\ Last(saved[i]).cols = gen[i].cols
      /\ Last(saved[i]).boxes = gen[i].boxes

\* a placement of an inner level has been undone after deeper levels were
\* searched: the cell is empty again and the digit free in its row
C8_Witness ==
  \E i \in Runs :
    /\ gen[i].at = "backtrack"
    /\ Len(saved[i]) >= 2
    /\ Len(trace[i]) >= 2
    /\ trace[i][Len(trace[i]) - 1].type = "backtrack"
    /\ WorkingBoard(i)[LastStep(i).r][LastStep(i).c] = "."
    /\ ~gen[i].rows[LastStep(i).r][LastStep(i).d]

----------------------------------------------------------------------------
\* C9: two runs started on the same initial board, resumed in any order,
\* yield the same steps in the same order (kind, cell, digit, candidates,
\* scan, swap and the snapshots of a selectCell) and return equal boards:
\* the steps of the run that is behind are the first steps of the other,
\* runs suspended after equally many steps are suspended at equal steps,
\* a finished run has yielded as many steps as the other ever does, and
\* the boards of two finished runs are equal cell for cell.
C9_RunsAgree ==
  \A i \in Runs : \A j \in Runs :
    /\ Len(trace[i]) <= Len(trace[j]) => IsPrefix(trace[i], trace[j])
    /\ (/\ Started(i) /\ ~Done(i)
        /\ Started(j) /\ ~Done(j)
        /\ Len(trace[i]) = Len(trace[j])) => yielded[i] = yielded[j]
    /\ Done(i) => Len(trace[j]) <= Len(trace[i])
    /\ (Done(i) /\ Done(j)) =>
         /\ trace[i] = trace[j]
         /\ FinalBoard(i) = FinalBoard(j)

\* two runs have finished on their own boards after a search that
\* placed and undid digits
C9_Witness ==
  \E i \in Runs : \E j \in Runs :
    /\ i # j
    /\ Done(i) /\ Done(j)
    /\ gen[i].b # gen[j].b
    /\ Emitted(i, "backtrack")
    /\ Len(trace[j]) = Len(trace[i])

----------------------------------------------------------------------------
\* every level of the recursion of run i has its current candidate on the
\* board
PathPlaced(i) ==
  \A j \in 1 .. Len(gen[i].stack) :
    "n" \in DOMAIN gen[i].stack[j] =>
      /\ gen[i].stack[j].n >= 1
      /\ WorkingBoard(i)[gen[i].stack[j].r][gen[i].stack[j].c]
           = toChar(gen[i].stack[j].candidates[gen[i].stack[j].n])

\* C10: once a run has yielded solved, solved is its last step and it was
\* yielded once; the one resumption that follows finishes the run without
\* yielding a step (no backtrack, tryDigit or selectCell, so no candidate
\* left untried on the path is tried), and the board it returns is the
\* board of the solved step, with the placement of every level of the
\* path on it and no cell empty.
C10_SolvedIsLast ==
  [][\A i \in Runs :
       (Emitted(i, "solved") /\ gen[i]' # gen[i]) =>
         /\ gen[i].at = "solved"
         /\ Last(trace[i]) = [type |-> "solved"]
         /\ CountOf(i, "solved") = 1
         /\ PathPlaced(i)
         /\ Done(i)'
         /\ trace[i]' = trace[i]
         /\ yielded[i]'[1].done
         /\ FinalBoard(i)' = WorkingBoard(i)
         /\ OpenCells(FinalBoard(i)') = {}]_vars

\* a run has finished after solved, and a cell for which the search had
\* two or more candidates holds the first of them
C10_Witness ==
  \E i \in Runs :
    /\ Done(i)
    /\ Last(trace[i]) = [type |-> "solved"]
    /\ \E n \in 1 .. Len(trace[i]) :
         /\ trace[i][n].type = "selectCell"
         /\ Len(trace[i][n].candidates) >= 2
         /\ FinalBoard(i)[trace[i][n].r][trace[i][n].c]
              = toChar(trace[i][n].candidates[1])

----------------------------------------------------------------------------
\* the events of the snapshots stepOnce pushes for run j: one for each
\* step but solved, and final when the run has ended
RunEvents(j) ==
  SelectSeq([n \in 1 .. Len(trace[j]) |-> trace[j][n].type],
            LAMBDA t : t # "solved")
    \o (IF Done(j) THEN << "final" >> ELSE << >>)

RECURSIVE EventsUpTo(_)
EventsUpTo(j) == IF j = 0 THEN << >> ELSE EventsUpTo(j - 1) \o RunEvents(j)

RECURSIVE StepsUpTo(_)
StepsUpTo(j) == IF j = 0 THEN 0 ELSE StepsUpTo(j - 1) + Len(trace[j])

\* C11: whatever the order of stepOnce, start, pause, viewSnapshot and
\* viewLive, the board of the hook, which stepOnce builds from the steps
\* alone, equals the working board of the generator it is stepping, and
\* the board the generator returned once it has ended; every step yielded
\* since the last initializePuzzle has been counted once and, but for
\* solved, has its one snapshot in history, in order, the latest one
\* showing the board of the hook.
C11_HookBoardFollowsEngine ==
  /\ hook.genRef # << >> =>
       /\ hook.genRef[1] = Len(gen)
       /\ ~Done(hook.genRef[1])
       /\ heap[hook.board] = WorkingBoard(hook.genRef[1])
  /\ (hook.genRef = << >> /\ Len(gen) >= 1) =>
       /\ Done(Len(gen))
       /\ heap[hook.board] = FinalBoard(Len(gen))
  /\ Len(gen) = 0 => heap[hook.board] = puzzle
  /\ \A j \in 1 .. (Len(gen) - 1) : Done(j)
  /\ hook.stepCount = StepsUpTo(Len(gen))
  /\ [n \in 1 .. Len(hook.history) |-> hook.history[n].event] = EventsUpTo(Len(gen))
  /\ \A n \in 1 .. Len(hook.history) : hook.history[n].idx = n - 1
  /\ hook.history # << >> => Last(hook.history).board = heap[hook.board]

\* the hook has applied a backtrack step while an earlier snapshot was
\* being viewed and the run was paused
C11_Witness ==
  /\ hook.genRef # << >>
  /\ hook.viewIndex # << >>
  /\ ~hook.running
  /\ Last(trace[hook.genRef[1]]).type = "backtrack"
  /\ heap[hook.board] = WorkingBoard(hook.genRef[1])
  /\ heap[hook.board] # puzzle

----------------------------------------------------------------------------
\* the frontier position at which the cell that was at the head, position
\* k, when the selection of the latest selectCell step began stands now
HeadPosition(i) ==
  IF LastStep(i).swap = << >> THEN LastStep(i).index
  ELSE LastStep(i).swap[1].best

\* C12: at a selectCell step whose frontier-head cell had at most one
\* candidate when the selection began, the scan has the one entry of the
\* head cell, there is no swap and the head cell is the selected cell.
C12_HeadWithAtMostOneCandidate ==
  \A i \in Runs :
    (gen[i].at = "selectCell" /\ FrontierCount(i, HeadPosition(i)) <= 1) =>
      LET step == LastStep(i)
          head == At(gen[i].empties, HeadPosition(i))
      IN /\ Len(step.scan) = 1
         /\ step.scan[1].i = step.index
         /\ step.scan[1].r = head[1] /\ step.scan[1].c = head[2]
         /\ step.scan[1].count = FrontierCount(i, HeadPosition(i))
         /\ step.scan[1].bestIndex = step.index
         /\ step.swap = << >>
         /\ step.r = head[1] /\ step.c = head[2]
         /\ Len(step.candidates) = FrontierCount(i, HeadPosition(i))

\* a selectCell step whose head cell had exactly one candidate while
\* other cells were still undecided after it
C12_Witness ==
  \E i \in Runs :
    /\ gen[i].at = "selectCell"
    /\ FrontierCount(i, HeadPosition(i)) = 1
    /\ LastStep(i).index + 1 < Len(gen[i].empties)
    /\ Len(LastStep(i).scan) = 1

----------------------------------------------------------------------------
\* the index a cell has in the row-major order in which findEmpties first
\* builds the frontier (the order of r * 9 + c)
OriginalIndex(cell) == cell[1] * BOARD_SIZE + cell[2]

\* C13 as stated: at a selectCell step, among the undecided cells whose
\* candidate count equals that of the selected cell, the selected cell is
\* the one that was earliest in the row-major frontier as first built.
C13_LowestOriginalIndex ==
  \A i \in Runs :
    gen[i].at = "selectCell" =>
      LET k == LastStep(i).index
      IN \A j \in k .. (Len(gen[i].empties) - 1) :
           FrontierCount(i, j) = FrontierCount(i, k) =>
             OriginalIndex(At(gen[i].empties, k))
               <= OriginalIndex(At(gen[i].empties, j))

----------------------------------------------------------------------------
\* the frontier of run i, which before the first next() is the list
\* findEmpties is going to build
Frontier(i) == IF Started(i) THEN gen[i].empties ELSE findEmpties(puzzle)

\* arr holds the same cells as the row-major list of the puzzle's empty
\* cells: same length, every cell once
IsPermutationOfInitial(arr) ==
  \A first \in { findEmpties(puzzle) } :
    /\ Len(arr) = Len(first)
    /\ \A n \in 1 .. Len(arr) : \E m \in 1 .. Len(arr) : arr[m] = first[n]
    /\ \A n \in 1 .. Len(arr) : \A m \in 1 .. (n - 1) : arr[n] # arr[m]

\* the step of run i changes the frontier only at a selectCell step that
\* reports a swap, and then by exchanging positions k and best, best > k
FrontierChangesBySwap(i) ==
  \A step \in { yielded'[i][1].value } :
  \A before \in { Frontier(i) } :
  \A after \in { gen'[i].empties } :
    IF gen'[i].at = "selectCell" /\ step.swap # << >>
      THEN /\ step.swap[1].k = step.index
           /\ step.swap[1].k < step.swap[1].best
           /\ step.swap[1].best < Len(after)
           /\ after = Swapped(before, step.swap[1].k, step.swap[1].best)
           /\ after # before
      ELSE after = before

\* C14: after any number of steps of any run the frontier is a permutation
\* of the row-major list of the initially empty cells (same length, no
\* cell inserted, removed or duplicated), and a step changes it only by
\* swapping two positions k and best with best > k.
C14_FrontierIsPermutation ==
  /\ [](\A i \in Runs : \A arr \in { Frontier(i) } : IsPermutationOfInitial(arr))
  /\ [][\A i \in Runs : gen'[i] # gen[i] => FrontierChangesBySwap(i)]_vars

\* a selectCell step below the top level that swapped, on a frontier that
\* earlier swaps had already taken out of row-major order
C14_Witness ==
  \E i \in Runs :
    /\ gen[i].at = "selectCell"
    /\ LastStep(i).swap # << >>
    /\ LastStep(i).index >= 2
    /\ \E n \in (LastStep(i).index + 2) .. Len(gen[i].empties) :
         /\ gen[i].empties[n] # findEmpties(puzzle)[n]
         /\ n - 1 # LastStep(i).swap[1].best

----------------------------------------------------------------------------
\* the cells the steps of t have placed and not taken back: the latest
\* place or backtrack step of the cell is a place
PlacedOnPath(t) ==
  { p \in Idx \X Idx :
      \E n \in 1 .. Len(t) :
        /\ t[n].type = "place" /\ t[n].r = p[1] /\ t[n].c = p[2]
        /\ \A m \in (n + 1) .. Len(t) :
             ~(t[m].type = "backtrack" /\ t[m].r = p[1] /\ t[m].c = p[2]) }

\* C15: at every selectCell step with index k, frontier positions 0..k-1
\* hold exactly the cells placed on the current search path, which are
\* filled on the board, positions k..end hold cells that are empty on the
\* board, position k holds the selected cell, the empties snapshot of the
\* step lists the frontier with filled true for exactly its first k
\* entries, and k is the number of place steps minus the number of
\* backtrack steps emitted so far.
C15_FrontierSplitsAtK ==
  \A i \in Runs :
    gen[i].at = "selectCell" =>
      \A step \in { LastStep(i) } :
      \A e \in { gen[i].empties } :
      \A b \in { WorkingBoard(i) } :
        /\ { e[n] : n \in 1 .. step.index } = PlacedOnPath(trace[i])
        /\ \A n \in 1 .. step.index : isDigit(b[e[n][1]][e[n][2]])
        /\ \A n \in (step.index + 1) .. Len(e) : b[e[n][1]][e[n][2]] = "."
        /\ At(e, step.index) = << step.r, step.c >>
        /\ Len(step.empties) = Len(e)
        /\ \A n \in 1 .. Len(e) :
             /\ step.empties[n].r = e[n][1]
             /\ step.empties[n].c = e[n][2]
             /\ step.empties[n].filled <=> n <= step.index
        /\ step.index = CountOf(i, "place") - CountOf(i, "backtrack")

\* a selectCell step two or more levels down that swapped, after the
\* search has taken a placement back
C15_Witness ==
  \E i \in Runs :
    /\ gen[i].at = "selectCell"
    /\ LastStep(i).index >= 2
    /\ LastStep(i).index + 1 < Len(gen[i].empties)
    /\ LastStep(i).swap # << >>
    /\ CountOf(i, "backtrack") >= 1

----------------------------------------------------------------------------
\* C16: solveSudokuMRV never modifies the board passed to it: after any
\* number of steps, the end of the run included, the board of the caller
\* holds in every cell what it held when the generator was made, and the
\* board the search writes to is another object.
C16_InitialBoardUnchanged ==
  \A i \in Runs :
    /\ \A r, c \in Idx : heap[gen[i].initial][r][c] = puzzle[r][c]
    /\ Started(i) => gen[i].b # gen[i].initial

\* a run has ended with every cell of its working board filled, on a
\* puzzle that had empty cells and after taking a placement back
C16_Witness ==
  \E i \in Runs :
    /\ Done(i)
    /\ OpenCells(FinalBoard(i)) = {}
    /\ OpenCells(puzzle) # {}
    /\ CountOf(i, "backtrack") >= 1

----------------------------------------------------------------------------
\* the last of the steps of t that follow step n, a selectCell, before the
\* search next selects a cell for the level of step n or a level above it
VisitEnd(t, n) ==
  LET stops == { x \in (n + 1) .. Len(t) :
                   t[x].type = "selectCell" /\ t[x].index <= t[n].index }
  IN IF stops = {} THEN Len(t)
     ELSE (CHOOSE x \in stops : \A y \in stops : x <= y) - 1

\* the digits of the tryDigit steps for the cell (r, c) among steps
\* from .. to of t, in the order of the steps
TriedDigits(t, from, to, r, c) ==
  LET tries == SelectSeq([x \in 1 .. (to + 1 - from) |-> from + x - 1],
                 LAMBDA m : /\ t[m].type = "tryDigit"
                            /\ t[m].r = r /\ t[m].c = c)
  IN [x \in 1 .. Len(tries) |-> t[tries[x]].d]

\* C17: in every selectCell step, candidates is the ascending list of
\* exactly the digits 1..9 that canPlace allows for the selected cell at
\* that moment, and the tryDigit steps issued for that cell at that level
\* try those digits in ascending order, each at most once.
C17_CandidatesAscending ==
  \A i \in Runs :
    /\ gen[i].at = "selectCell" =>
         \A step \in { LastStep(i) } :
           /\ \A n \in 1 .. (Len(step.candidates) - 1) :
                step.candidates[n] < step.candidates[n + 1]
           /\ { step.candidates[n] : n \in 1 .. Len(step.candidates) }
                = { d \in 1 .. MAX_DIGIT :
                      canPlace(gen[i].rows, gen[i].cols, gen[i].boxes,
                               step.r, step.c, d) }
           /\ { step.candidates[n] : n \in 1 .. Len(step.candidates) }
                = FreeDigits(WorkingBoard(i), step.r, step.c)
    /\ \A t \in { trace[i] } :
         \A n \in 1 .. Len(t) :
           t[n].type = "selectCell" =>
             \A tried \in { TriedDigits(t, n + 1, VisitEnd(t, n), t[n].r, t[n].c) } :
               /\ \A x \in 1 .. (Len(tried) - 1) : tried[x] < tried[x + 1]
               /\ \A x \in 1 .. Len(tried) :
                    \E y \in 1 .. Len(t[n].candidates) :
                      tried[x] = t[n].candidates[y]

\* below the top level the search tries the second candidate of a cell,
\* after taking the first one back
C17_Witness ==
  \E i \in Runs :
    /\ gen[i].at = "tryDigit"
    /\ Len(Top(gen[i]).candidates) >= 2
    /\ Top(gen[i]).n = 2
    /\ Top(gen[i]).k >= 1

----------------------------------------------------------------------------
\* the cells of the 3x3 block of the grid in block row br, block column bc
Block(br, bc) ==
  { << 3 * br + dr, 3 * bc + dc >> : dr \in 0 .. 2, dc \in 0 .. 2 }

\* digit d stands in no cell of row r, of column c, or of the block of
\* (r, c) of the board
Absent(board, r, c, d) ==
  /\ \A c2 \in Idx : board[r][c2] # DigitChars[d]
  /\ \A r2 \in Idx : board[r2][c] # DigitChars[d]
  /\ \A p \in Block(r \div 3, c \div 3) : board[p[1]][p[2]] # DigitChars[d]

\* C18: for the usage tables buildUsage builds from a board, canPlace is
\* true for r, c in 0..8 and d in 1..9 iff no cell of row r, no cell of
\* column c and no cell of the 3x3 block of (r, c) holds d; boxId maps
\* the 81 cells onto nine blocks (0..8) of nine cells each, which are the
\* nine 3x3 blocks of the grid.
C18_CanPlaceIffAbsent ==
  /\ \A i \in Runs :
       \A board \in { IF Started(i) THEN WorkingBoard(i) ELSE puzzle } :
       \A usage \in { buildUsage(board) } :
         \A r \in Idx : \A c \in Idx : \A d \in Digits :
           canPlace(usage.rows, usage.cols, usage.boxes, r, c, d)
             <=> Absent(board, r, c, d)
  /\ \A r \in Idx : \A c \in Idx : boxId(r, c) \in 0 .. 8
  /\ \A x \in 0 .. 8 :
       Cardinality({ p \in Idx \X Idx : boxId(p[1], p[2]) = x }) = 9
  /\ { { p \in Idx \X Idx : boxId(p[1], p[2]) = x } : x \in 0 .. 8 }
       = { Block(br, bc) : br \in 0 .. 2, bc \in 0 .. 2 }

\* on a board the search has written to, the tables built from the board
\* refuse a digit for an empty cell because of its block alone, and allow
\* another digit for the same cell
C18_Witness ==
  \E i \in Runs :
    /\ Started(i)
    /\ WorkingBoard(i) # puzzle
    /\ \E usage \in { buildUsage(WorkingBoard(i)) } :
       \E r \in Idx : \E c \in Idx :
         /\ WorkingBoard(i)[r][c] = "."
         /\ \E d \in Digits :
              /\ ~InRow(WorkingBoard(i), r, d)
              /\ ~InCol(WorkingBoard(i), c, d)
              /\ ~canPlace(usage.rows, usage.cols, usage.boxes, r, c, d)
         /\ \E d \in Digits :
              canPlace(usage.rows, usage.cols, usage.boxes, r, c, d)

----------------------------------------------------------------------------
\* the puzzle has exactly one empty cell, and exactly one digit is legal
\* for it
OneCellLeft ==
  /\ Cardinality(OpenCells(puzzle)) = 1
  /\ \A p \in OpenCells(puzzle) :
       Cardinality(FreeDigits(puzzle, p[1], p[2])) = 1

\* the four steps of a run that fills the cell p with the digit d
FourSteps(p, d) ==
  << [type |-> "selectCell", index |-> 0, r |-> p[1], c |-> p[2],
      candidates |-> << d >>, swap |-> << >>],
     [type |-> "tryDigit", r |-> p[1], c |-> p[2], d |-> d],
     [type |-> "place", r |-> p[1], c |-> p[2], d |-> d],
     [type |-> "solved"] >>

\* C19: on a board with exactly one empty cell that has exactly one legal
\* digit, a run emits exactly four steps in this order: selectCell with a
\* scan of length 1 and no swap, tryDigit, place, solved; it emits no
\* backtrack step.
C19_OneCellFourSteps ==
  OneCellLeft =>
    \A i \in Runs :
    \A p \in OpenCells(puzzle) :
    \A d \in FreeDigits(puzzle, p[1], p[2]) :
      /\ IsPrefix(trace[i], FourSteps(p, d))
      /\ CountOf(i, "backtrack") = 0
      /\ gen[i].at = "selectCell" =>
           /\ Len(LastStep(i).scan) = 1
           /\ LastStep(i).swap = << >>
      /\ Len(trace[i]) = (CASE gen[i].at = "start" -> 0
                            [] gen[i].at = "selectCell" -> 1
                            [] gen[i].at = "tryDigit" -> 2
                            [] gen[i].at = "place" -> 3
                            [] gen[i].at = "solved" -> 4
                            [] gen[i].at = "done" -> 4
                            [] OTHER -> 5)

\* a run on a board with one empty cell has ended
C19_Witness ==
  /\ OneCellLeft
  /\ \E i \in Runs : Done(i) /\ Len(trace[i]) = 4

----------------------------------------------------------------------------
\* a generator made on a board p of its own, after n calls of next():
\* the generator, the heap and what the latest call yielded
RECURSIVE FreshRun(_, _)
FreshRun(p, n) ==
  IF n = 0
    THEN [g |-> solveSudokuMRV(0), heap |-> (0 :> p), yield |-> << >>]
    ELSE TheOnly({ next(before.g, before.heap, 1)
                   : before \in { FreshRun(p, n - 1) } })

\* the number of next() calls run i has served
Calls(i) == Len(trace[i]) + (IF Done(i) THEN 1 ELSE 0)

\* the state reset and initializePuzzle leave: the board of the hook is
\* the initial puzzle, and so is the copy kept for the next reset; no
\* history, no step counted, not running, not finished, the live view,
\* and no generator
Pristine ==
  /\ heap[hook.board] = puzzle
  /\ heap[hook.initialRef] = puzzle
  /\ hook.history = << >>
  /\ hook.stepCount = 0
  /\ ~hook.running
  /\ ~hook.finished
  /\ hook.viewIndex = << >>
  /\ hook.genRef = << >>
  /\ gen = << >>

\* the first generator made since the hook was last pristine is, after
\* its first step, where a generator made on the initial puzzle is after
\* its first step, and it works on a board that is neither the board of
\* the pristine hook nor the copy kept for reset
RunsAfresh ==
  1 \in Runs =>
    /\ gen[1].b \notin {0, hook.initialRef}
    /\ heap[hook.initialRef] = puzzle
    /\ Calls(1) = 1 =>
         \A f \in { FreshRun(puzzle, 1) } :
           /\ gen[1] = f.g
           /\ WorkingBoard(1) = f.heap[1]
           /\ yielded[1] = << IteratorResult(f) >>

\* a step of that generator after its first is the step next() gives from
\* the generator and its working board alone, whatever else the heap and
\* the hook hold: with RunsAfresh, the generator goes step by step the
\* way of the fresh one
StepsAlone ==
  (1 \in Runs /\ 1 \in Runs' /\ gen'[1] # gen[1]) =>
    \A m \in { next(gen[1], (1 :> heap[1]), 1) } :
      /\ gen'[1] = m.g
      /\ heap'[1] = m.heap[1]
      /\ yielded'[1] = << IteratorResult(m) >>

\* C20: reset and initializePuzzle, at any point of a run (between two
\* steps with the timer on or off, or after the end), leave the hook with
\* the initial puzzle as its board, an empty history, stepCount 0,
\* running and finished false, viewIndex null and no generator; the steps
\* applied afterwards are those of a fresh run on the initial puzzle,
\* whose board and usage tables are built anew from it.
C20_ResetStartsAfresh ==
  /\ [][(Reset \/ InitializePuzzle) => Pristine']_vars
  /\ []RunsAfresh
  /\ [][StepsAlone]_vars

\* a generator was dropped between two of its steps, and the generator
\* made after that has placed a digit and taken it back
C20_Witness ==
  /\ abandoned \in {"midrun", "paused"}
  /\ hook.genRef = << 1 >>
  /\ CountOf(1, "backtrack") >= 1
  /\ heap[hook.board] # puzzle

----------------------------------------------------------------------------
\* C23 as stated: when the frontier-head cell has more than one candidate,
\* the scan stops at the first scanned cell with at most one candidate
\* (none or one): the entry of that cell is the last of the scan, and
\* without such a cell the scan runs to the end of the frontier.
C23_ScanStopsAtCountAtMostOne ==
  \A i \in Runs :
    gen[i].at = "selectCell" =>
      \A scan \in { LastStep(i).scan } :
        scan[1].count > 1 =>
          /\ \A n \in 2 .. Len(scan) : scan[n].count <= 1 => n = Len(scan)
          /\ scan[Len(scan)].count > 1 =>
               LastStep(i).index + Len(scan) = Len(gen[i].empties)

\* the least candidate count among the first n entries of a scan
LeastCount(scan, n) ==
  CHOOSE m \in { scan[x].count : x \in 1 .. n } :
    \A x \in 1 .. n : m <= scan[x].count

\* C23 as amended: when the frontier-head cell has more than one
\* candidate, the scan stops at the first scanned cell that brings the
\* least count seen so far to exactly one, whose entry is the last of the
\* scan; a cell without candidate does not stop the scan, nor does any
\* cell after it: the scan then runs to the end of the frontier and a
\* cell without candidate is selected.
C23_ScanStopsAtLeastCountOne ==
  \A i \in Runs :
    gen[i].at = "selectCell" =>
      \A scan \in { LastStep(i).scan } :
        scan[1].count > 1 =>
          /\ \A n \in 2 .. Len(scan) :
               /\ scan[n].i = LastStep(i).index + n - 1
               /\ LeastCount(scan, n) = 1 => n = Len(scan)
          /\ LeastCount(scan, Len(scan)) # 1 =>
               LastStep(i).index + Len(scan) = Len(gen[i].empties)
          /\ LeastCount(scan, Len(scan)) = 0 =>
               Len(LastStep(i).candidates) = 0

\* a scan that began at a head cell with two or more candidates, met a
\* cell without candidate and went on to the end of the frontier
C23_Witness ==
  \E i \in Runs :
    /\ gen[i].at = "selectCell"
    /\ LastStep(i).scan[1].count > 1
    /\ \E n \in 2 .. (Len(LastStep(i).scan) - 1) : LastStep(i).scan[n].count = 0
    /\ LastStep(i).index + Len(LastStep(i).scan) = Len(gen[i].empties)

----------------------------------------------------------------------------
\* the place and backtrack steps of t on the cell of step n, after step n
LaterOnCell(t, n) ==
  { m \in (n + 1) .. Len(t) :
      /\ t[m].type \in {"place", "backtrack"}
      /\ t[m].r = t[n].r /\ t[m].c = t[n].c }

\* the place and backtrack steps of t on the cell of step n, before step n
EarlierOnCell(t, n) ==
  { m \in 1 .. (n - 1) :
      /\ t[m].type \in {"place", "backtrack"}
      /\ t[m].r = t[n].r /\ t[m].c = t[n].c }

Earliest(S) == CHOOSE m \in S : \A x \in S : m <= x

\* the place step n of t has its undo: the next step on its cell is the
\* backtrack of its digit
Undone(t, n) ==
  \E later \in { LaterOnCell(t, n) } :
    /\ later # {}
    /\ t[Earliest(later)] = [type |-> "backtrack", r |-> t[n].r,
                               c |-> t[n].c, d |-> t[n].d]

\* the place steps of t
Places(t) == { n \in 1 .. Len(t) : t[n].type = "place" }

\* C24 as stated: when a run has ended, with or without solved, every
\* place step has been matched by one later backtrack step for the same
\* cell and digit.
C24_EveryPlaceUndone ==
  \A i \in Runs :
    Done(i) => \A n \in Places(trace[i]) : Undone(trace[i], n)

\* C24 as amended: a backtrack step undoes the latest place step on its
\* cell, which has its digit, and no place step is undone twice: between
\* two place steps on a cell lies the backtrack of the first.  When a
\* run has ended without solved every place step has been undone; when
\* it has ended with solved the place steps not undone are one for each
\* cell that was empty, and their digits stand on the board returned.
C24_PlacesUndoneUnlessSolved ==
  \A i \in Runs :
  \A t \in { trace[i] } :
    /\ \A n \in 1 .. Len(t) :
         /\ t[n].type = "backtrack" =>
              \E before \in { EarlierOnCell(t, n) } :
                /\ before # {}
                /\ t[Latest(before)] = [type |-> "place", r |-> t[n].r,
                                         c |-> t[n].c, d |-> t[n].d]
         /\ t[n].type = "place" =>
              \A before \in { EarlierOnCell(t, n) } :
                before # {} => t[Latest(before)].type = "backtrack"
    /\ (Done(i) /\ ~Emitted(i, "solved")) =>
         \A n \in Places(t) : Undone(t, n)
    /\ (Done(i) /\ Emitted(i, "solved")) =>
         \A kept \in { { n \in Places(t) : ~Undone(t, n) } } :
           /\ { << t[n].r, t[n].c >> : n \in kept } = OpenCells(puzzle)
           /\ Cardinality(kept) = Cardinality(OpenCells(puzzle))
           /\ \A n \in kept : FinalBoard(i)[t[n].r][t[n].c] = toChar(t[n].d)

\* a run has ended with solved after taking a placement back
C24_Witness ==
  \E i \in Runs :
    /\ Done(i)
    /\ Emitted(i, "solved")
    /\ CountOf(i, "backtrack") >= 1
    /\ OpenCells(puzzle) # {}

----------------------------------------------------------------------------
\* the first of the first n entries of a scan to have the least count
\* among them
FirstLeast(scan, n) ==
  Earliest({ m \in 1 .. n : scan[m].count = LeastCount(scan, n) })

\* C25: the scan entries of a selectCell step with index k cover the
\* consecutive frontier indices from k on, each with the cell that stood
\* there before the swap and its candidate count; the bestCount of an
\* entry is the least count among the entries so far and its bestIndex
\* the index of the first entry that had it; swap is null iff the last
\* bestIndex is k, and otherwise it is {k, best} with best the last
\* bestIndex, the selected cell being the one that stood at best.
C25_ScanTracksFirstMinimum ==
  \A i \in Runs :
    gen[i].at = "selectCell" =>
      \A step \in { LastStep(i) } :
      \A scan \in { LastStep(i).scan } :
      \A e \in { gen[i].empties } :
      \A best \in { scan[Len(scan)].bestIndex } :
        /\ Len(scan) >= 1
        /\ \A n \in 1 .. Len(scan) :
             /\ scan[n].i = step.index + n - 1
             /\ << scan[n].r, scan[n].c >>
                  = (IF scan[n].i = step.index THEN At(e, best)
                     ELSE IF scan[n].i = best THEN At(e, step.index)
                     ELSE At(e, scan[n].i))
             /\ scan[n].count
                  = Cardinality(FreeDigits(WorkingBoard(i), scan[n].r, scan[n].c))
             /\ scan[n].bestCount = LeastCount(scan, n)
             /\ scan[n].bestIndex = scan[FirstLeast(scan, n)].i
        /\ step.swap = << >> <=> best = step.index
        /\ best # step.index => step.swap = << [k |-> step.index, best |-> best] >>
        /\ << step.r, step.c >>
             = << scan[best - step.index + 1].r, scan[best - step.index + 1].c >>
        /\ << step.r, step.c >> = At(e, step.index)

\* a scan in which a later cell tied with the best one so far, and which
\* ended in a swap
C25_Witness ==
  \E i \in Runs :
    /\ gen[i].at = "selectCell"
    /\ LastStep(i).swap # << >>
    /\ \E n \in 1 .. Len(LastStep(i).scan) :
         /\ LastStep(i).scan[n].count = LastStep(i).scan[n].bestCount
         /\ LastStep(i).scan[n].bestIndex # LastStep(i).scan[n].i
         /\ LastStep(i).scan[n].bestIndex # LastStep(i).index

----------------------------------------------------------------------------
----------------------------------------------------------------------------
\* C28: the snapshot of a place step carries a deltaFromPrevious whose
\* boardChanges has exactly one entry, for the cell of the step, with
\* oldValue '.' and newValue the digit placed; the snapshot of a backtrack
\* step carries one entry with oldValue the digit removed (the one the
\* snapshot before it shows in the cell) and newValue '.'.
C28_DeltaHoldsOldAndNewValue ==
  \A n \in 1 .. Len(hook.history) :
    LET snapshot == hook.history[n]
    IN snapshot.event \in {"place", "backtrack"} =>
         LET changes == snapshot.deltaFromPrevious.boardChanges
             before == hook.history[n - 1].board
         IN /\ Len(changes) = 1
            /\ snapshot.board[changes[1].r][changes[1].c] = changes[1].newValue
            /\ before[changes[1].r][changes[1].c] = changes[1].oldValue
            /\ IF snapshot.event = "place"
                 THEN changes[1].oldValue = "." /\ isDigit(changes[1].newValue)
                 ELSE isDigit(changes[1].oldValue) /\ changes[1].newValue = "."

----------------------------------------------------------------------------
\* run i ends in this step: its generator returns
Ends(i) == i \in DOMAIN gen' /\ gen'[i].at = "done" /\ gen[i].at # "done"

Finals == { n \in 1 .. Len(hook.history) : hook.history[n].event = "final" }

\* C22: the stepOnce in which the engine's run ends sets finished = true
\* and running = false and appends exactly one snapshot, with event 'final'
\* and with note 'Solved' if the run emitted a solved step and 'No solution'
\* if it did not; no other step appends a 'final' snapshot, so the history
\* holds one per run that has ended; after a run that emitted no solved
\* step the hook's board equals the initial puzzle.
C22_RunEndIsRecordedOnce ==
  /\ [][\A i \in Runs : Ends(i) =>
          /\ hook'.finished /\ ~hook'.running
          /\ Len(hook'.history) = Len(hook.history) + 1
          /\ SubSeq(hook'.history, 1, Len(hook.history)) = hook.history
          /\ Last(hook'.history).event = "final"
          /\ Last(hook'.history).idx = Len(hook.history)
          /\ Last(hook'.history).note =
               (IF Emitted(i, "solved") THEN "Solved" ELSE "No solution")
          /\ (~Emitted(i, "solved") =>
                /\ heap'[hook'.board] = puzzle
                /\ Last(hook'.history).board = puzzle)]_vars
  /\ [](Cardinality(Finals) = Cardinality({ i \in Runs : gen[i].at = "done" }))

\* a run on a puzzle without solution has ended after at least one
\* placement was made and undone
C22_Witness ==
  /\ hook.finished /\ ~hook.running
  /\ Runs = {1} /\ gen[1].at = "done"
  /\ ~Emitted(1, "solved") /\ Emitted(1, "backtrack")
  /\ Last(hook.history).note = "No solution"
  /\ heap[hook.board] = puzzle

----------------------------------------------------------------------------
(* lib/sudoku/validation.ts.  A board given to these functions may lack    *)
(* rows or cells: it is a function on 0 .. n-1 whose rows are functions on *)
(* 0 .. m-1.  Reading a cell an existing row lacks gives undefined, and    *)
(* reading a cell of a row the board lacks throws a TypeError.             *)

undefined == "undefined"

TypeError == [threw |-> TRUE]

Returned(value) == [threw |-> FALSE, value |-> value]

length(array) == Cardinality(DOMAIN array)

\* board[r][c] where board[r] exists
CellOf(board, r, c) == IF c \in DOMAIN board[r] THEN board[r][c] ELSE undefined

\* isDigit(ch) for what a cell read can give: undefined >= '1' is false
isDigitCell(ch) == ch # undefined /\ isDigit(ch)

RowNumbers == [n \in 1 .. BOARD_SIZE |-> n - 1]

RECURSIVE Flatten(_)
Flatten(seqs) == IF seqs = << >> THEN << >> ELSE Head(seqs) \o Flatten(Tail(seqs))

validateBoardShape(board) ==
  IF length(board) # 9
    THEN << [type |-> "shape", message |-> "Board must have 9 rows"] >>
    ELSE LET short == SelectSeq(RowNumbers, LAMBDA r : length(board[r]) # 9)
         IN [n \in 1 .. Len(short) |->
               [type |-> "shape",
                message |-> "Row " \o ToString(short[n] + 1)
                            \o " must have 9 cells"]]

validateBoardChars(board) ==
  IF \E r \in Idx : r \notin DOMAIN board
    THEN TypeError
    ELSE LET bad == SelectSeq(AllCells,
                      LAMBDA p : LET ch == CellOf(board, p[1], p[2])
                                 IN ch # "." /\ ~isDigitCell(ch))
         IN Returned([n \in 1 .. Len(bad) |->
                        [type |-> "char",
                         message |-> "Invalid char at (" \o ToString(bad[n][1] + 1)
                                     \o "," \o ToString(bad[n][2] + 1) \o ")"]])

\* the rows, columns and boxes in the order validateDuplicates visits
\* them, each with its cells in the order of the loops
Units ==
  [n \in 1 .. 27 |->
     IF n <= 9
       THEN [type |-> "row", name |-> "Row " \o ToString(n),
             cells |-> [m \in 1 .. 9 |-> << n - 1, m - 1 >>]]
     ELSE IF n <= 18
       THEN [type |-> "col", name |-> "Column " \o ToString(n - 9),
             cells |-> [m \in 1 .. 9 |-> << m - 1, n - 10 >>]]
     ELSE LET br == (n - 19) \div 3
              bc == (n - 19) % 3
          IN [type |-> "box", name |-> "Box " \o ToString(br * 3 + bc + 1),
              cells |-> [m \in 1 .. 9 |->
                           << br * 3 + ((m - 1) \div 3), bc * 3 + ((m - 1) % 3) >>]]]

\* the issues of one unit: a Map from digit to its positions, iterated in
\* the order the digits were first met
duplicatesIn(board, unit) ==
  LET chAt(m) == CellOf(board, unit.cells[m][1], unit.cells[m][2])
      firsts == SelectSeq([m \in 1 .. 9 |-> m],
                  LAMBDA m : /\ isDigitCell(chAt(m))
                             /\ \A e \in 1 .. (m - 1) : chAt(e) # chAt(m)
                             /\ \E l \in (m + 1) .. 9 : chAt(l) = chAt(m))
  IN [n \in 1 .. Len(firsts) |->
        LET ch == chAt(firsts[n])
            arr == SelectSeq(unit.cells,
                     LAMBDA p : CellOf(board, p[1], p[2]) = ch)
        IN [type |-> unit.type,
            digit |-> charCodeAt0(ch) - 48,
            positions |-> [k \in 1 .. Len(arr) |->
                             [r |-> arr[k][1], c |-> arr[k][2]]],
            message |-> unit.name \o " has duplicate " \o ch]]

validateDuplicates(board) ==
  IF \E r \in Idx : r \notin DOMAIN board
    THEN TypeError
    ELSE LET issues == Flatten([n \in 1 .. 27 |-> duplicatesIn(board, Units[n])])
         IN Returned([issues |-> issues,
                      \* the keys `${p.r},${p.c}` as pairs
                      conflictSet |->
                        UNION { { << issues[n].positions[k].r,
                                     issues[n].positions[k].c >> :
                                  k \in 1 .. Len(issues[n].positions) } :
                                n \in 1 .. Len(issues) }])

\* lib/sudoku validateBoard: the three checks are all made, one after the
\* other, whatever the earlier ones found
validateBoard(board) ==
  LET shapeIssues == validateBoardShape(board)
      charIssues == validateBoardChars(board)
      duplicates == validateDuplicates(board)
  IN IF charIssues.threw THEN TypeError
     ELSE IF duplicates.threw THEN TypeError
     ELSE Returned([issues |-> shapeIssues \o charIssues.value
                                \o duplicates.value.issues,
                    conflictSet |-> duplicates.value.conflictSet])

\* boards of any shape: the first rowCount rows of a 9x9 board continued
\* periodically, one of them cut to cellCount cells
MaxRowCount == 10
MaxCellCount == 10

\* the board of the 'classic' sample with a second 5 in its first row and
\* first box
ClashRows ==
  <<535070000, 600195000, 98000060, 800060003, 400803001, 700020006,
    60000280, 419005, 80079>>

Shaped(base, rowCount, cutRow, cellCount) ==
  [r \in 0 .. (rowCount - 1) |->
     IF r = cutRow
       THEN [c \in 0 .. (cellCount - 1) |-> base[r % 9][c % 9]]
       ELSE base[r % 9]]

ShapedBoards ==
  { Shaped(base, rowCount, cutRow, cellCount) :
      base \in { Puzzle(9), ParseBoard(ClashRows) },
      rowCount \in 0 .. MaxRowCount,
      cutRow \in {0, 8},
      cellCount \in 8 .. MaxCellCount }

InitValidate ==
  /\ arg \in ShapedBoards
  /\ ret = << >>
  /\ puzzle = EmptyBoard
  /\ heap = << >>
  /\ gen = << >>
  /\ yielded = << >>
  /\ trace = << >>
  /\ saved = << >>
  /\ emitted = << >>
  /\ hook = [mounted |-> FALSE]
  /\ abandoned = "none"
  /\ validation = [issues |-> << >>]
  /\ acted = [name |-> "none"]
  /\ visual = << >>
  /\ added = << >>

\* the call validateBoard(arg) is made and ends
ValidateBoard ==
  /\ ret = << >>
  /\ ret' = << validateBoard(arg) >>
  /\ UNCHANGED <<heap, gen, yielded, trace, saved, puzzle, hook, abandoned,
                 emitted, validation, arg, acted, visual, added>>

SpecValidate == InitValidate /\ [][ValidateBoard]_vars

\* C30: lib/sudoku validateBoard returns a result, issues and conflictSet,
\* for every input board, also one that fails the shape check: for a board
\* with fewer than 9 rows the result holds the 'Board must have 9 rows'
\* issue, and no call ends with an error.
C30_ValidateBoardReturnsForEveryBoard ==
  ret # << >> =>
    /\ ~ret[1].threw
    /\ (length(arg) < 9 =>
          \E n \in 1 .. Len(ret[1].value.issues) :
            ret[1].value.issues[n] =
              [type |-> "shape", message |-> "Board must have 9 rows"])

----------------------------------------------------------------------------
(* utils/validation.ts.  A string is the sequence of its characters.       *)

Whitespace == {" ", "\n", "\r", "\t"}

\* String.prototype.trim
trim(str) ==
  LET inked == { i \in 1 .. Len(str) : str[i] \notin Whitespace }
  IN IF inked = { } THEN << >>
     ELSE SubSeq(str, CHOOSE i \in inked : \A j \in inked : i <= j,
                      CHOOSE i \in inked : \A j \in inked : i >= j)

\* str.split(/\n|\r\n?/)
RECURSIVE split(_)
split(str) ==
  LET breaks == { i \in 1 .. Len(str) : str[i] \in {"\n", "\r"} }
  IN IF breaks = { } THEN << str >>
     ELSE LET i == CHOOSE b \in breaks : \A j \in breaks : b <= j
              width == IF str[i] = "\r" /\ i < Len(str) /\ str[i + 1] = "\n"
                         THEN 2 ELSE 1
          IN << SubSeq(str, 1, i - 1) >>
               \o split(SubSeq(str, i + width, Len(str)))

ValidationResult(errors, warnings) ==
  [isValid |-> errors = << >>, errors |-> errors, warnings |-> warnings]

\* the board is an array (null, undefined and other values are not
\* among the inputs) and its cells are strings of one character
validateBoardStructure(input) ==
  IF length(input) # 9
    THEN ValidationResult(
           << "Board must have 9 rows, found " \o ToString(length(input)) >>,
           << >>)
    ELSE ValidationResult(
           Flatten([n \in 1 .. 9 |->
             LET r == n - 1
                 row == input[r]
             IN IF length(row) # 9
                  THEN << "Row " \o ToString(r + 1) \o " must have 9 cells, found "
                          \o ToString(length(row)) >>
                  ELSE LET bad == SelectSeq(RowNumbers,
                                    LAMBDA c : row[c] \notin
                                      ({"."} \cup { DigitChars[d] : d \in Digits }))
                       IN [k \in 1 .. Len(bad) |->
                             "Cell (" \o ToString(r + 1) \o ", "
                             \o ToString(bad[k] + 1)
                             \o ") must be a digit 1-9 or '.', found \""
                             \o row[bad[k]] \o "\""]]),
           << >>)

\* the name validateSudokuRules gives the n-th unit
ruleName(n) ==
  IF n <= 9 THEN "row " \o ToString(n)
  ELSE IF n <= 18 THEN "column " \o ToString(n - 9)
  ELSE "box (" \o ToString(((n - 19) \div 3) + 1) \o ", "
       \o ToString(((n - 19) % 3) + 1) \o ")"

validateSudokuRulesColumnsAndBoxes(board) ==
  ValidationResult(
    Flatten([n \in 1 .. 18 |->
      LET cells == Units[n + 9].cells
          cellAt(m) == board[cells[m][1]][cells[m][2]]
          again == SelectSeq([m \in 1 .. 9 |-> m],
                     LAMBDA m : /\ cellAt(m) # "."
                                /\ \E e \in 1 .. (m - 1) : cellAt(e) = cellAt(m))
      IN [k \in 1 .. Len(again) |->
            "Duplicate " \o cellAt(again[k]) \o " in " \o ruleName(n + 9)]]),
    << >>)

\* one error for every cell whose digit an earlier cell of the unit holds
validateSudokuRules(board) ==
  ValidationResult(
    Flatten([n \in 1 .. 27 |->
      LET cells == Units[n].cells
          cellAt(m) == board[cells[m][1]][cells[m][2]]
          again == SelectSeq([m \in 1 .. 9 |-> m],
                     LAMBDA m : /\ cellAt(m) # "."
                                /\ \E e \in 1 .. (m - 1) : cellAt(e) = cellAt(m))
      IN [k \in 1 .. Len(again) |->
            "Duplicate " \o cellAt(again[k]) \o " in " \o ruleName(n)]]),
    << >>)

getPossibleValues(board, row, col) ==
  IF board[row][col] # "." THEN << >>
  ELSE LET boxR == (row \div 3) * 3
           boxC == (col \div 3) * 3
           used == { board[row][c] : c \in Idx }
                   \cup { board[r][col] : r \in Idx }
                   \cup { board[r][c] : r \in boxR .. (boxR + 2),
                                        c \in boxC .. (boxC + 2) }
       IN SelectSeq(DigitChars, LAMBDA ch : ch \notin (used \ {"."}))

validateSolvability(board) ==
  LET filledCount == Cardinality({ p \in Idx \X Idx : board[p[1]][p[2]] # "." })
      stuck == SelectSeq(AllCells,
                 LAMBDA p : /\ board[p[1]][p[2]] = "."
                            /\ Len(getPossibleValues(board, p[1], p[2])) = 0)
  IN ValidationResult(
       [k \in 1 .. Len(stuck) |->
          "Cell (" \o ToString(stuck[k][1] + 1) \o ", "
          \o ToString(stuck[k][2] + 1)
          \o ") has no possible values. Puzzle is unsolvable."],
       (IF filledCount < 17
          THEN << "Only " \o ToString(filledCount)
                  \o " clues provided. Sudoku typically needs at least 17 clues to have a unique solution." >>
          ELSE << >>)
       \o (IF filledCount > 60
             THEN << ToString(filledCount)
                     \o " clues provided. This puzzle is mostly solved already." >>
             ELSE << >>))

\* validateBoard of utils/validation.ts
utilsValidateBoard(board) ==
  LET structureResult == validateBoardStructure(board)
  IN IF ~structureResult.isValid THEN structureResult
     ELSE LET rulesResult == validateSudokuRules(board)
              solvabilityResult == validateSolvability(board)
          IN [isValid |-> structureResult.isValid /\ rulesResult.isValid
                          /\ solvabilityResult.isValid,
              errors |-> structureResult.errors \o rulesResult.errors
                         \o solvabilityResult.errors,
              warnings |-> structureResult.warnings \o rulesResult.warnings
                           \o solvabilityResult.warnings]

\* the string of a sequence of characters
RECURSIVE stringOf(_)
stringOf(chars) ==
  IF chars = << >> THEN "" ELSE Head(chars) \o stringOf(Tail(chars))

\* board is null (no element) or the board made of the lines; the Error
\* thrown for a line of another length than 9 is caught
createBoardFromString(input) ==
  TheOnly({
    IF Len(lines) # 9
      THEN [board |-> << >>,
            validation |-> ValidationResult(
              << "Expected 9 lines, got " \o ToString(Len(lines)) >>, << >>)]
    ELSE IF \E n \in 1 .. 9 : Len(lines[n]) # 9
      THEN LET n == CHOOSE m \in 1 .. 9 :
                      /\ Len(lines[m]) # 9
                      /\ \A e \in 1 .. (m - 1) : Len(lines[e]) = 9
           IN [board |-> << >>,
               validation |-> ValidationResult(
                 << "Line \"" \o stringOf(lines[n])
                    \o "\" must have 9 characters, got "
                    \o ToString(Len(lines[n])) >>, << >>)]
    ELSE LET board == [r \in Idx |-> [c \in Idx |-> lines[r + 1][c + 1]]]
         IN TheOnly({
              [board |-> IF result.isValid THEN << board >> ELSE << >>,
               validation |-> result]
              : result \in { utilsValidateBoard(board) } })
    : lines \in { TheOnly({ [n \in 1 .. Len(parts) |-> trim(parts[n])]
                            : parts \in { split(trim(input)) } }) } })

----------------------------------------------------------------------------
(* useSudokuController.  Every handler runs to its end before the next     *)
(* one starts; the timer of the auto-step effect is armed exactly while    *)
(* solver.running is true.                                                 *)

\* SAMPLES: classic, easy, medium, hard
SampleRows ==
  << <<530070000, 600195000, 98000060, 800060003, 400803001, 700020006,
       60000280, 419005, 80079>>,
     <<10700402, 9001007, 7000900, 8050100, 700000004, 1090300, 3000600,
       400800200, 602007080>>,
     <<9748000, 700000000, 20109000, 7000240, 64010590, 98000300, 803020,
       6, 275900>>,
     <<100907003, 80000070, 7000800, 70005000, 1030200, 400050, 2000600,
       60000010, 900501008>> >>

\* sample.rows.map(r => r.split(''))
SampleBoard(key) == ParseBoard(SampleRows[key])

validateBoardComprehensively(board) ==
  TheOnly({
    [issues |-> legacyResult.value.issues,
     conflictSet |-> legacyResult.value.conflictSet,
     comprehensive |-> [errors |-> comprehensiveResult.errors,
                        warnings |-> comprehensiveResult.warnings]]
    : legacyResult \in { validateBoard(board) },
      comprehensiveResult \in { utilsValidateBoard(board) } })

\* the steps one behaviour applies between two initializePuzzle calls
MaxSteps == 12

\* the lines of a text joined by the line end sep
RECURSIVE joined(_, _)
joined(lines, sep) ==
  IF Len(lines) = 1 THEN lines[1]
  ELSE lines[1] \o sep \o joined(Tail(lines), sep)

linesOf(board) == [n \in 1 .. 9 |-> [m \in 1 .. 9 |-> board[n - 1][m - 1]]]

\* the classic sample with one more digit in cell (r, c)
Classic(r, c, ch) == [Puzzle(9) EXCEPT ![r][c] = ch]

\* the texts given to the prompt of onPaste
NearlySolved == Dig(ParseBoard(SolvedRows), { HoleCells[n] : n \in 1 .. 3 })

PasteTexts ==
  { \* a valid board, plainly and with other line ends and blanks
    joined(linesOf(NearlySolved), << "\n" >>),
    << " ", "\n" >> \o joined(linesOf(NearlySolved), << " ", "\r", "\n" >>)
       \o << "\n" >>,
    \* a second 7 in row 1, a second 5 in column 1, a second 9 in box 1
    joined(linesOf(Classic(0, 8, "7")), << "\n" >>),
    joined(linesOf(Classic(6, 0, "5")), << "\n" >>),
    joined(linesOf(Classic(0, 2, "9")), << "\n" >>),
    \* eight lines; a line of eight characters; a character that is no cell
    joined(SubSeq(linesOf(Puzzle(9)), 1, 8), << "\n" >>),
    joined([linesOf(Puzzle(9)) EXCEPT ![3] = SubSeq(@, 1, 8)], << "\n" >>),
    joined(linesOf(Classic(0, 2, "0")), << "\n" >>),
    \* nothing
    << >> }

\* what loadSample computes for each key and onPaste for each text: the
\* board, what createBoardFromString makes of the text, and what
\* validateBoardComprehensively says of a board that is loaded
Loaded ==
  { [key |-> key, board |-> SampleBoard(key),
     validation |-> validateBoardComprehensively(SampleBoard(key))] :
    key \in DOMAIN SampleRows }

Prompted ==
  { TheOnly({
      [txt |-> txt, created |-> created,
       validation |->
         IF created.board = << >> THEN << >>
         ELSE << validateBoardComprehensively(created.board[1]) >>]
      : created \in { createBoardFromString(txt) } })
    : txt \in PasteTexts }

\* the mount effect
InitController ==
  /\ puzzle = SampleBoard(1)
  /\ \E s \in { initializePuzzle([mounted |-> FALSE], (0 :> puzzle), 0) } :
       heap = s.heap /\ hook = s.hook
  /\ \E sample \in { l \in Loaded : l.key = 1 } :
       validation = sample.validation
  /\ gen = << >>
  /\ yielded = << >>
  /\ trace = << >>
  /\ saved = << >>
  /\ emitted = << >>
  /\ abandoned = "none"
  /\ arg = << >>
  /\ ret = << >>
  /\ acted = [name |-> "mount"]
  /\ visual = << >>
  /\ added = << >>

\* what a handler leaves alone when it changes nothing of the solver
SolverUnchanged ==
  UNCHANGED <<heap, gen, yielded, trace, saved, puzzle, hook, abandoned,
              emitted>>

\* the tick of the auto-step timer
Tick ==
  /\ hook.running
  /\ hook.stepCount < MaxSteps
  /\ Stepping
  /\ acted' = [name |-> "tick"]
  /\ UNCHANGED <<validation, arg, ret, visual, added>>

OnStart ==
  /\ IF ~hook.running /\ ~hook.finished /\ Len(validation.issues) > 0
       THEN SolverUnchanged
       ELSE /\ hook' = start(hook)
            /\ UNCHANGED <<heap, gen, yielded, trace, saved, puzzle,
                           abandoned, emitted>>
  /\ acted' = [name |-> "onStart"]
  /\ UNCHANGED <<validation, arg, ret, visual, added>>

OnPause ==
  /\ hook' = pause(hook)
  /\ UNCHANGED <<heap, gen, yielded, trace, saved, puzzle, abandoned, emitted>>
  /\ acted' = [name |-> "onPause"]
  /\ UNCHANGED <<validation, arg, ret, visual, added>>

OnReset ==
  /\ Resetting
  /\ acted' = [name |-> "onReset"]
  /\ UNCHANGED <<validation, arg, ret, visual, added>>

OnStepWhileRunning ==
  /\ hook.stepCount < MaxSteps
  /\ Stepping
  /\ acted' = [name |-> "onStep"]
  /\ UNCHANGED <<validation, arg, ret, visual, added>>

OnStep ==
  /\ IF hook.running
       THEN SolverUnchanged
       ELSE hook.stepCount < MaxSteps /\ Stepping
  /\ acted' = [name |-> "onStep"]
  /\ UNCHANGED <<validation, arg, ret, visual, added>>

LoadSample ==
  \E sample \in Loaded :
    /\ Initializing(sample.board)
    /\ validation' = sample.validation
    /\ acted' = [name |-> "loadSample", key |-> sample.key]
    /\ UNCHANGED <<arg, ret, visual, added>>

OnPaste ==
  \E prompt \in Prompted :
    /\ IF prompt.txt = << >>
         THEN /\ SolverUnchanged
              /\ UNCHANGED validation
              /\ acted' = [name |-> "onPaste", txt |-> prompt.txt]
         ELSE /\ IF prompt.created.board = << >>
                      \/ ~prompt.created.validation.isValid
                   THEN SolverUnchanged /\ UNCHANGED validation
                   ELSE /\ Initializing(prompt.created.board[1])
                        /\ validation' = prompt.validation[1]
              /\ acted' = [name |-> "onPaste", txt |-> prompt.txt,
                           created |-> prompt.created]
    /\ UNCHANGED <<arg, ret, visual, added>>

OnViewSnapshot ==
  \E index \in 0 .. MaxViewIndex :
    /\ index < Len(hook.history)
    /\ hook' = viewSnapshot(hook, index)
    /\ UNCHANGED <<heap, gen, yielded, trace, saved, puzzle, abandoned,
                   emitted>>
    /\ acted' = [name |-> "onViewSnapshot", index |-> index]
    /\ UNCHANGED <<validation, arg, ret, visual, added>>

OnViewLive ==
  /\ hook' = viewLive(hook)
  /\ UNCHANGED <<heap, gen, yielded, trace, saved, puzzle, abandoned, emitted>>
  /\ acted' = [name |-> "onViewLive"]
  /\ UNCHANGED <<validation, arg, ret, visual, added>>

NextController ==
    \/ Tick
    \/ OnStart
    \/ OnPause
    \/ OnReset
    \/ OnStep
    \/ LoadSample
    \/ OnPaste
    \/ OnViewSnapshot
    \/ OnViewLive

SpecController == InitController /\ [][NextController]_vars

----------------------------------------------------------------------------
\* the 9x9 grid a text shows, if it shows one: nine lines of nine characters
GridOf(txt) ==
  TheOnly({
    IF Len(parts) = 9 /\ \A n \in 1 .. 9 : Len(trim(parts[n])) = 9
      THEN << [r \in Idx |-> [c \in Idx |-> trim(parts[r + 1])[c + 1]]] >>
      ELSE << >>
    : parts \in { split(trim(txt)) } })

\* two cells of one row, column or box hold the same digit
\* the pairs of cells that share a row, a column or a box
Peers ==
  { pq : pq \in
      { << p, q >> \in (Idx \X Idx) \X (Idx \X Idx) :
          /\ p[1] < q[1] \/ (p[1] = q[1] /\ p[2] < q[2])
          /\ \/ p[1] = q[1]
             \/ p[2] = q[2]
             \/ (p[1] \div 3 = q[1] \div 3 /\ p[2] \div 3 = q[2] \div 3) } }

Clash(board) ==
  \E pq \in Peers :
    /\ board[pq[1][1]][pq[1][2]] # "."
    /\ board[pq[1][1]][pq[1][2]] = board[pq[2][1]][pq[2][2]]

ClashTexts ==
  { txt \in PasteTexts : GridOf(txt) # << >> /\ Clash(GridOf(txt)[1]) }

PastedClash(a) == a.name = "onPaste" /\ a.txt \in ClashTexts

\* C21: a pasted 9x9 board with a duplicate digit in a row, column or box
\* is rejected by onPaste: createBoardFromString returns no board,
\* initializePuzzle is not called and the solver state (board, history,
\* generator) is unchanged; and the engine is never run on such a board:
\* whatever loadSample, onPaste, onStart, onStep, onReset and the timer have
\* done, no board of the hook or of a generator holds a duplicate.
C21_PastedDuplicateIsRejected ==
  /\ [][PastedClash(acted') =>
          /\ acted'.created.board = << >>
          /\ ~acted'.created.validation.isValid
          /\ UNCHANGED <<hook, heap, gen, yielded, trace, puzzle, validation>>]_vars
  /\ [](/\ ~Clash(puzzle)
        /\ ~Clash(heap[hook.board])
        /\ heap[hook.initialRef] = puzzle
        /\ \A i \in Runs : ~Clash(WorkingBoard(i)))

\* a board with a duplicate was pasted in the middle of a run
C21_Witness ==
  /\ PastedClash(acted)
  /\ hook.genRef # << >>
  /\ Len(hook.history) >= 3
  /\ heap[hook.board] # puzzle

----------------------------------------------------------------------------
\* board.every(row => row.every(ch => ch !== '.'))
FullySolved(board) == \A r \in Idx : \A c \in Idx : board[r][c] # "."

\* C26: when onStart is invoked on a finished run whose board is fully
\* solved, the solve restarts from the initial puzzle: the board of the
\* hook is the initial puzzle again when onStart is over, before any
\* further step is applied, and every generator begins with the first
\* step of a run on the initial puzzle.
C26_StartOnSolvedRunRestarts ==
  /\ [][(/\ acted'.name = "onStart"
          /\ hook.finished
          /\ FullySolved(heap[hook.board]))
          => heap'[hook'.board] = puzzle]_vars
  /\ [](\A i \in Runs :
          Calls(i) = 1 =>
            \A f \in { FreshRun(puzzle, 1) } :
              yielded[i] = << IteratorResult(f) >>)

----------------------------------------------------------------------------
\* a solver step is applied: a generator is created or resumed
StepApplied == gen' # gen /\ gen' # << >>

\* exactly one next() call is served, by the generator the hook holds
OneCall ==
  \E i \in DOMAIN gen' :
    /\ \A j \in DOMAIN gen \ {i} : gen'[j] = gen[j]
    /\ DOMAIN gen' = DOMAIN gen \cup {i}
    /\ Len(trace'[i]) + (IF gen'[i].at = "done" THEN 1 ELSE 0)
         = (IF i \in DOMAIN gen THEN Calls(i) ELSE 0) + 1
    /\ hook'.stepCount \in {hook.stepCount, hook.stepCount + 1}
    /\ Len(hook'.history) \in {Len(hook.history), Len(hook.history) + 1}

\* C27: while running is true, onStep applies no solver step: only the
\* ticks of the timer advance the engine then, each by one step; after
\* onPause running is false, and while it is false no solver step is
\* applied (board, history and stepCount are those onPause left) unless
\* onStep is invoked, and the timer runs again only after onStart.
C27_OnlyTicksStepWhileRunning ==
  /\ [][StepApplied =>
          /\ acted'.name = (IF hook.running THEN "tick" ELSE "onStep")
          /\ OneCall]_vars
  /\ [][(acted'.name = "onStep" /\ hook.running) =>
          UNCHANGED <<hook, heap, gen, yielded, trace, puzzle>>]_vars
  /\ [][acted'.name = "onPause" =>
          /\ ~hook'.running
          /\ heap'[hook'.board] = heap[hook.board]
          /\ hook'.history = hook.history
          /\ hook'.stepCount = hook.stepCount
          /\ UNCHANGED gen]_vars
  /\ [][(~hook.running /\ acted'.name \notin {"onStep", "onReset",
                                                "loadSample", "onPaste"}) =>
          /\ heap'[hook'.board] = heap[hook.board]
          /\ hook'.history = hook.history
          /\ hook'.stepCount = hook.stepCount
          /\ UNCHANGED gen]_vars
  /\ [][(~hook.running /\ hook'.running) => acted'.name = "onStart"]_vars

\* onStep was invoked in the middle of a run while the timer was on
C27_Witness ==
  /\ acted.name = "onStep"
  /\ hook.running
  /\ hook.genRef # << >>
  /\ hook.stepCount >= 3

----------------------------------------------------------------------------
\* C36: in the solver hook running = true implies viewIndex = null in every
\* reachable state: running becomes true only by start, which clears the
\* timeline view, and viewIndex takes a snapshot index only by viewSnapshot,
\* which stops running.
C36_RunningImpliesLiveView ==
  /\ [](hook.running => hook.viewIndex = << >>)
  /\ [][(~hook.running /\ hook'.running) =>
          /\ hook' = start(hook)
          /\ hook'.viewIndex = << >>]_vars
  /\ [][(hook'.viewIndex # << >> /\ hook'.viewIndex # hook.viewIndex) =>
          /\ ~hook'.running
          /\ hook' = viewSnapshot(hook, hook'.viewIndex[1])]_vars

\* the timer was started in the middle of a run whose history holds the
\* snapshots a view could show
C36_Witness ==
  /\ hook.running
  /\ hook.viewIndex = << >>
  /\ hook.genRef # << >>
  /\ Len(hook.history) > MaxViewIndex

----------------------------------------------------------------------------
\* C34: in the solver hook finished and running are never both true: once a
\* run has finished, no handler other than those that reset or initialize
\* the puzzle (onReset, loadSample, onPaste) sets running to true or appends
\* to history.
C34_FinishedRunStaysStopped ==
  /\ [](~(hook.finished /\ hook.running))
  /\ [][(/\ hook.finished
          /\ acted'.name \in {"tick", "onStart", "onPause", "onStep",
                               "onViewSnapshot", "onViewLive"})
          => /\ ~hook'.running
             /\ hook'.history = hook.history]_vars

----------------------------------------------------------------------------
\* C33: when the run on a rule-consistent initial board that has at least
\* one valid completion has finished, the last step it yielded is solved
\* and the board it returned is a valid grid that keeps the clues; a run
\* finishes without a solved step only on a board without valid completion.
C33_CompletionIsFound ==
  \A i \in Runs :
    Done(i) =>
      /\ (RuleConsistent(puzzle) /\ HasCompletion(puzzle)) =>
           /\ trace[i] # << >>
           /\ trace[i][Len(trace[i])].type = "solved"
           /\ CountOf(i, "solved") = 1
           /\ ValidGrid(FinalBoard(i))
           /\ KeepsClues(FinalBoard(i))
      /\ ~Emitted(i, "solved") => ~HasCompletion(puzzle)

\* a run on a board with a completion went down a dead end, undid it and
\* ended with solved
C33_Witness ==
  \E i \in Runs :
    /\ Done(i)
    /\ RuleConsistent(puzzle)
    /\ HasCompletion(puzzle)
    /\ CountOf(i, "backtrack") >= 2
    /\ trace[i][Len(trace[i])].type = "solved"

----------------------------------------------------------------------------
\* the snapshots of the history that record an event of the type; every
\* selectCell, tryDigit, place and backtrack step applied pushes one, and
\* initializePuzzle empties the history
Recorded(type) ==
  Cardinality({ n \in 1 .. Len(hook.history) : hook.history[n].event = type })

\* C35: after every stepOnce call metrics.steps equals stepCount, and
\* metrics.selects, tries, places and backtracks equal the numbers of
\* selectCell, tryDigit, place and backtrack steps applied since the last
\* reset, with nodes equal to selects.
C35_MetricsFollowSteps ==
  hook.genRef # << >> \/ hook.finished =>
    /\ hook.metrics.steps = hook.stepCount
    /\ hook.metrics.selects = Recorded("selectCell")
    /\ hook.metrics.tries = Recorded("tryDigit")
    /\ hook.metrics.places = Recorded("place")
    /\ hook.metrics.backtracks = Recorded("backtrack")
    /\ hook.metrics.nodes = hook.metrics.selects

----------------------------------------------------------------------------
(* useVisualization: the log.  A log line is a string; the state updates   *)
(* of setLogs are applied one after the other, each to the result of the   *)
(* one before, so that every call of addLog or clearLogs is one action.    *)

\* const MAX = 3000
MAX == 3000

\* array.slice(begin)
slice(array, begin) == SubSeq(array, begin + 1, Len(array))

\* array.slice(0, end)
sliceTo(array, end) == SubSeq(array, 1, end)

\* Array.isArray(lines) ? lines : [lines]
arrayOf(lines) == IF lines.isArray THEN lines.value ELSE << lines.value >>

addLogKeepOldest(prev, lines) ==
  LET nextLogs == prev \o arrayOf(lines)
  IN IF Len(nextLogs) > MAX THEN sliceTo(nextLogs, MAX) ELSE nextLogs

\* the updater addLog gives to setLogs, applied to the logs before
addLog(prev, lines) ==
  LET nextLogs == prev \o arrayOf(lines)
  IN IF Len(nextLogs) > MAX THEN slice(nextLogs, Len(nextLogs) - MAX) ELSE nextLogs

\* setLogs([])
clearLogs == << >>

\* the calls of addLog between two calls of clearLogs
MaxCalls == 3

\* the k-th line of a call that writes lines of one kind
LineOf(tag, k) == tag \o ToString(k)

\* what addLog is given: one line, or an array of no line, of two lines, of
\* half as many lines as the log holds and of one line more than it holds
LogLines ==
  { [isArray |-> FALSE, value |-> LineOf(tag, 0)] : tag \in {"step ", "board "} }

LogArrays ==
  { [isArray |-> TRUE, value |-> [k \in 1 .. n |-> LineOf(tag, k)]] :
      tag \in {"step ", "board "}, n \in {0, 2, MAX \div 2, MAX + 1} }

InitLogs ==
  /\ visual = [logs |-> << >>]
  /\ added = << >>
  /\ acted = [name |-> "none", calls |-> 0]
  /\ heap = << >>
  /\ gen = << >>
  /\ yielded = << >>
  /\ trace = << >>
  /\ saved = << >>
  /\ puzzle = << >>
  /\ hook = [mounted |-> FALSE]
  /\ abandoned = "none"
  /\ emitted = << >>
  /\ validation = [issues |-> << >>]
  /\ arg = << >>
  /\ ret = << >>

Adding(lines) ==
  /\ visual' = [visual EXCEPT !.logs = addLog(@, lines)]
  /\ added' = added \o arrayOf(lines)

AddLog ==
  /\ acted.calls < MaxCalls
  /\ \/ \E lines \in LogLines : Adding(lines)
     \/ \E lines \in LogArrays : Adding(lines)
  /\ acted' = [name |-> "addLog", calls |-> acted.calls + 1]
  /\ UNCHANGED <<heap, gen, yielded, trace, saved, puzzle, hook, abandoned,
                 emitted, validation, arg, ret>>

ClearLogs ==
  /\ visual' = [visual EXCEPT !.logs = clearLogs]
  /\ added' = << >>
  /\ acted' = [name |-> "clearLogs", calls |-> 0]
  /\ UNCHANGED <<heap, gen, yielded, trace, saved, puzzle, hook, abandoned,
                 emitted, validation, arg, ret>>

NextLogs == AddLog \/ ClearLogs

SpecLogs == InitLogs /\ [][NextLogs]_vars

\* C32: after any sequence of addLog and clearLogs calls logs holds at most
\* 3000 lines and is the most recent suffix of everything added since the
\* last clearLogs: the lines dropped are the oldest ones and the lines kept
\* are in the order in which they were added.
C32_LogsAreLatestSuffix ==
  /\ Len(visual.logs) <= MAX
  /\ Len(visual.logs) = IF Len(added) > MAX THEN MAX ELSE Len(added)
  /\ visual.logs = slice(added, Len(added) - Len(visual.logs))

\* lines were dropped, and the lines kept come from more than one call
C32_Witness ==
  /\ acted.name = "addLog"
  /\ Len(added) > MAX
  /\ Len(visual.logs) = MAX
  /\ visual.logs[1] # added[1]
  /\ \E n \in 1 .. (MAX - 1) : visual.logs[n + 1] = LineOf("board ", 1)

----------------------------------------------------------------------------
(* The MRV scan animation: the scan effect of useSudokuController,         *)
(* startMrvScanAnimation and stopMrvScanAnimation of useVisualization, the *)
(* props SudokuVisualizer gives to EmptiesPanel and the phase effect of    *)
(* EmptiesArrayVisualizer.  The controller returns { ...solver,            *)
(* ...visualization }, so that controller.mrvScanPos is the mrvScanPos of  *)
(* useVisualization.  A state update is followed by a render and by the    *)
(* effects whose dependencies changed, those of the child component before *)
(* those of the controller; each handler and each timer callback is one    *)
(* action together with the effects that follow it.  An array is known by  *)
(* its id where the dependencies of an effect compare references.          *)

\* the scan and the swap of a selectCell step with frontier k that scanned
\* n cells and found its best cell at index best
ScanOf(k, n, best) ==
  [j \in 1 .. n |->
     [i |-> k + j - 1, bestIndex |-> IF k + j - 1 >= best THEN best ELSE k]]

SwapOf(k, best) == IF best # k THEN << [k |-> k, best |-> best] >> ELSE << >>

\* the cells a scan visits and the selectCell steps one behaviour shows
MaxScan == 3
MaxShown == 2

\* a snapshot of the history, as far as the animation reads it
SnapshotOf(event, scan, swap, id) ==
  [event |-> event, scan |-> scan, swap |-> swap, id |-> id]

\* the snapshot of the latest selectCell step
SelectSnapshot(v) == SnapshotOf("selectCell", v.mrvScan, v.mrvSwap, v.shown)

\* scan, swap, scanPos and isTimelineMode of EmptiesPanel
EmptiesPanelProps(v) ==
  IF v.viewed # << >>
    THEN [scan |-> v.viewed[1].scan, swap |-> v.viewed[1].swap,
          scanPos |-> -1, isTimelineMode |-> TRUE, id |-> v.viewed[1].id]
    ELSE [scan |-> v.mrvScan, swap |-> v.mrvSwap,
          scanPos |-> v.mrvScanPos, isTimelineMode |-> FALSE, id |-> v.shown]

\* the phase effect of EmptiesArrayVisualizer, run when scanPos, scan, swap
\* or isTimelineMode changed; the cleanup of the run before clears its timer
phaseEffect(v) ==
  LET props == EmptiesPanelProps(v)
      isScanning == props.scanPos >= 0 /\ props.scanPos < Len(props.scan)
      scanJustFinished == props.scanPos = -1 /\ Len(props.scan) > 0
  IN IF props = v.seen THEN v
     ELSE IF props.isTimelineMode
       THEN [v EXCEPT !.seen = props, !.timer = FALSE,
                      !.phase = IF props.swap # << >> THEN "swapped"
                                ELSE "idle"]
     ELSE IF isScanning
       THEN [v EXCEPT !.seen = props, !.timer = FALSE, !.phase = "scanning"]
     ELSE IF scanJustFinished /\ props.swap # << >>
       THEN [v EXCEPT !.seen = props, !.timer = TRUE,
                      !.phase = "highlightingSwap"]
     ELSE [v EXCEPT !.seen = props, !.timer = FALSE, !.phase = "idle"]

startMrvScanAnimation(v, scanLength) ==
  [v EXCEPT !.mrvScanPos = 0,
            !.interval = IF scanLength = 0 THEN << >> ELSE << scanLength >>]

stopMrvScanAnimation(v) == [v EXCEPT !.interval = << >>]

\* the MRV scan animation effect of useSudokuController
scanAnimationEffect(v) ==
  LET activeScan == IF v.viewed # << >> THEN v.viewed[1].scan ELSE v.mrvScan
      shouldAnimate ==
        Len(activeScan) > 0 /\ (~v.running \/ v.viewed # << >>)
      currentStep == IF v.viewed # << >> THEN v.viewed ELSE v.last
      shouldSkipAnimation ==
        currentStep # << >> /\ currentStep[1].event \in {"tryDigit", "place"}
  IN IF shouldAnimate /\ ~shouldSkipAnimation
       THEN startMrvScanAnimation(v, Len(activeScan))
       ELSE stopMrvScanAnimation(v)

\* the render after a change of the solver state, with its effects and the
\* render the controller's effect causes
rendered(v) == phaseEffect(scanAnimationEffect(phaseEffect(v)))

\* setMrvScanPos(pos => (pos + 1 >= scanLength ? scanLength - 1 : pos + 1))
intervalCallback(v) ==
  LET scanLength == v.interval[1]
  IN [v EXCEPT !.mrvScanPos = IF @ + 1 >= scanLength THEN scanLength - 1
                               ELSE @ + 1]

\* setPhase('swapped'), by the timer of the phase effect
timeoutCallback(v) == [v EXCEPT !.phase = "swapped", !.timer = FALSE]

\* the events that can follow an event in the history of a run
Following(last) ==
  IF last = << >> THEN {"selectCell"}
  ELSE CASE last[1].event = "selectCell" -> {"tryDigit", "backtrack"}
         [] last[1].event = "tryDigit" -> {"place"}
         [] last[1].event = "place" -> {"selectCell"}
         [] last[1].event = "backtrack" -> {"tryDigit", "backtrack"}

InitVisualizer ==
  /\ \E v \in { [running |-> FALSE, viewed |-> << >>, last |-> << >>,
                  mrvScan |-> << >>, mrvSwap |-> << >>, shown |-> 0,
                  mrvScanPos |-> 0, interval |-> << >>,
                  phase |-> "idle", timer |-> FALSE, seen |-> << >>] } :
       visual = phaseEffect([v EXCEPT !.seen = [mounted |-> FALSE]])
  /\ added = << >>
  /\ acted = [name |-> "none"]
  /\ heap = << >>
  /\ gen = << >>
  /\ yielded = << >>
  /\ trace = << >>
  /\ saved = << >>
  /\ puzzle = << >>
  /\ hook = [mounted |-> FALSE]
  /\ abandoned = "none"
  /\ emitted = << >>
  /\ validation = [issues |-> << >>]
  /\ arg = << >>
  /\ ret = << >>

VisualOnly ==
  UNCHANGED <<heap, gen, yielded, trace, saved, puzzle, hook, abandoned,
              emitted, validation, arg, ret, acted, added>>

\* stepOnce applies a selectCell step: by onStep, or by a tick while running
SelectStep ==
  /\ visual.viewed = << >>
  /\ "selectCell" \in Following(visual.last)
  /\ visual.shown < MaxShown
  /\ \E k \in 0 .. 1 : \E n \in 1 .. MaxScan : \E best \in k .. (k + n - 1) :
       visual' = rendered(
         [visual EXCEPT !.mrvScan = ScanOf(k, n, best),
                        !.mrvSwap = SwapOf(k, best),
                        !.shown = @ + 1,
                        !.last = << SnapshotOf("selectCell", ScanOf(k, n, best),
                                               SwapOf(k, best),
                                               visual.shown + 1) >>])
  /\ VisualOnly

\* stepOnce applies a tryDigit, place or backtrack step
OtherStep ==
  /\ visual.viewed = << >>
  /\ \E event \in Following(visual.last) \ {"selectCell"} :
       visual' = rendered(
         [visual EXCEPT !.last = << SnapshotOf(event, << >>, << >>, 0) >>])
  /\ VisualOnly

\* start, pause, viewSnapshot and viewLive when they change the state of
\* the solver hook: a call that changes nothing causes no render
StartRun ==
  /\ ~visual.running \/ visual.viewed # << >>
  /\ visual' = rendered([visual EXCEPT !.running = TRUE, !.viewed = << >>])
  /\ VisualOnly

PauseRun ==
  /\ visual.running
  /\ visual' = rendered([visual EXCEPT !.running = FALSE])
  /\ VisualOnly

\* viewSnapshot of the last snapshot or of the latest selectCell snapshot
ViewTimeline ==
  /\ visual.last # << >>
  /\ \E snapshot \in {visual.last[1], SelectSnapshot(visual)} :
       /\ visual.running \/ visual.viewed # << snapshot >>
       /\ visual' = rendered([visual EXCEPT !.running = FALSE,
                                        !.viewed = << snapshot >>])
  /\ VisualOnly

ViewLiveAgain ==
  /\ visual.viewed # << >>
  /\ visual' = rendered([visual EXCEPT !.viewed = << >>])
  /\ VisualOnly

\* a timer is due: the interval of the scan animation or the timer of the
\* phase effect
TimerFires ==
  /\ \/ /\ visual.interval # << >>
        /\ visual' = phaseEffect(intervalCallback(visual))
     \/ /\ visual.timer
        /\ visual' = timeoutCallback(visual)
  /\ VisualOnly

NextVisualizer ==
    \/ SelectStep
    \/ OtherStep
    \/ StartRun
    \/ PauseRun
    \/ ViewTimeline
    \/ ViewLiveAgain
    \/ TimerFires

SpecVisualizer == InitVisualizer /\ [][NextVisualizer]_vars

\* a timer that is due fires
FairVisualizer == SpecVisualizer /\ WF_vars(TimerFires)

\* the k-th selectCell step, which swapped, is shown live while the solver
\* is paused and the scan animation goes
Watching(k) ==
  /\ visual.shown = k
  /\ visual.viewed = << >>
  /\ ~visual.running
  /\ visual.last = << SelectSnapshot(visual) >>
  /\ visual.mrvSwap # << >>
  /\ visual.interval # << >>

\* C31: in live mode, for a selectCell step that performed a swap, once the
\* scan animation has run through all scan entries the highlightingSwap
\* phase is entered and, after the highlight delay, the swapped phase,
\* unless another step, a start or a timeline view comes first.
C31_SwapIsShownAfterScan ==
  \A k \in 1 .. MaxShown :
    /\ (/\ Watching(k)
        /\ visual.phase = "scanning"
        /\ visual.mrvScanPos = Len(visual.mrvScan) - 1)
         ~> (visual.phase = "highlightingSwap" \/ ~Watching(k))
    /\ (Watching(k) /\ visual.phase = "highlightingSwap")
         ~> (visual.phase = "swapped" \/ ~Watching(k))

====
